---- MODULE Spec2Model ----
(***************************************************************************)
(* A model of the JSON formatter: the repair pipeline fixJson, the         *)
(* formatter formatJson / minifyJson, and the session controller's undo    *)
(* stack.  A text is a sequence of one-character strings.                  *)
(***************************************************************************)
EXTENDS Integers, Sequences, FiniteSets, TLC

VARIABLES text, orig, typed, res, out1, out2, value, undoStack, undoLen, pushed, viewMode, formattedVal, error, activeId,
          snippets, indentSize, viewer, parsed, searchTerm, filterMode, collapsed, kept, beforeSearch,
          jsonPath, pathResult

\* text: the text handed to the utilities; orig: the valid text it was derived
\* from; typed: the number of fragments typed; res, out1, out2: the results of
\* the calls made; value .. activeId: the state of the session controller;
\* pushed: every text pushed and not yet undone, newest first (history);
\* snippets, indentSize: the saved snippets and the indent selector; viewer:
\* the component showing the tree; parsed: the document it parsed; searchTerm, filterMode: its search box and
\* filter checkbox; collapsed: the collapsed flag of every mounted node, by
\* path; kept: the flag every node had when it was last mounted (history);
\* beforeSearch: the flags kept when the search began, less those of the nodes
\* toggled since (history); jsonPath, pathResult: the path query of JsonOutput and its result
vars == <<text, orig, typed, res, out1, out2, value, undoStack, undoLen, pushed, viewMode, formattedVal, error, activeId,
          snippets, indentSize, viewer, parsed, searchTerm, filterMode, collapsed, kept, beforeSearch,
          jsonPath, pathResult>>

utilVars == <<text, orig, typed, res, out1, out2>>

sessVars == <<snippets, indentSize>>

treeVars == <<viewer, parsed, searchTerm, filterMode, collapsed, kept, beforeSearch>>

pathVars == <<jsonPath, pathResult>>

ctlVars == <<value, undoStack, undoLen, pushed, viewMode, formattedVal, error, activeId, sessVars, treeVars, pathVars>>

(***************************************************************************)
(* Characters                                                              *)
(***************************************************************************)
Digits == {"0", "1", "2", "3", "4", "5", "6", "7", "8", "9"}

Letters == {"a", "b", "c", "d", "e", "f", "g", "h", "i", "j", "k", "l", "m", "n", "o", "p", "q", "r", "s", "t", "u", "v", "w", "x", "y", "z", "A", "B", "C", "D", "E", "F", "G", "H", "I", "J", "K", "L", "M", "N", "O", "P", "Q", "R", "S", "T", "U", "V", "W", "X", "Y", "Z"}

\* \w of a JavaScript regular expression
WordChars == Letters \cup Digits \cup {"_"}

\* [a-zA-Z_$] and [a-zA-Z0-9_$] of the key-quoting pass
IdentStart == Letters \cup {"_", "$"}

IdentChars == IdentStart \cup Digits

\* \s of a regular expression and the characters String.prototype.trim removes
RegexWs == {" ", "\n", "\t", "\r", "\f"}

\* the whitespace the JSON grammar allows between tokens
JsonWs == {" ", "\n", "\t", "\r"}

\* the characters "." of a regular expression does not match
LineTerminators == {"\n", "\r"}

\* the characters a JSON string literal may not contain unescaped
ControlChars == {"\n", "\t", "\r", "\f", "<bs>"}

HexDigits == Digits \cup {"a", "b", "c", "d", "e", "f", "A", "B", "C", "D", "E", "F"}

Sub(s, i, j) == IF j < i THEN <<>> ELSE SubSeq(s, i, j)

\* the element of a set of one element: The({F(x) : x \in {e}}) is F applied
\* to the value of e, computed once whatever the number of uses F makes of it
The(S) == CHOOSE r \in S : TRUE

From(s, i) == Sub(s, i, Len(s))

RECURSIVE TrimStart(_)
TrimStart(s) ==
  IF s # <<>> /\ Head(s) \in RegexWs THEN TrimStart(Tail(s)) ELSE s

RECURSIVE TrimEnd(_)
TrimEnd(s) ==
  IF s # <<>> /\ s[Len(s)] \in RegexWs THEN TrimEnd(Sub(s, 1, Len(s) - 1)) ELSE s

Trim(s) == TrimEnd(TrimStart(s))

RECURSIVE Join(_)
Join(ss) == IF ss = <<>> THEN "" ELSE Head(ss) \o Join(Tail(ss))

RECURSIVE DigitsOf(_)
DigitsOf(n) ==
  IF n < 10 THEN <<ToString(n)>> ELSE Append(DigitsOf(n \div 10), ToString(n % 10))

DigitVal(c) == CHOOSE d \in 0..9 : ToString(d) = c

RECURSIVE DigitsToInt(_)
DigitsToInt(ds) ==
  IF ds = <<>> THEN 0 ELSE 10 * DigitsToInt(Sub(ds, 1, Len(ds) - 1)) + DigitVal(ds[Len(ds)])

RECURSIVE StripLeadingZeros(_)
StripLeadingZeros(ds) ==
  IF ds # <<>> /\ Head(ds) = "0" THEN StripLeadingZeros(Tail(ds)) ELSE ds

RECURSIVE LexLess(_, _)
\* a < b for digit sequences of equal length
LexLess(a, b) ==
  IF a = <<>> THEN FALSE
  ELSE IF Head(a) # Head(b) THEN DigitVal(Head(a)) < DigitVal(Head(b))
  ELSE LexLess(Tail(a), Tail(b))

\* a < b for digit sequences without leading zeros
DigitsLess(a, b) ==
  IF Len(a) # Len(b) THEN Len(a) < Len(b) ELSE LexLess(a, b)

RECURSIVE Zeros(_)
Zeros(n) == IF n <= 0 THEN <<>> ELSE <<"0">> \o Zeros(n - 1)

RECURSIVE Spaces(_)
Spaces(n) == IF n <= 0 THEN <<>> ELSE <<" ">> \o Spaces(n - 1)

(***************************************************************************)
(* JSON values.  Every value is a record of the same shape, so that any    *)
(* two values can be compared: t is the kind, s the characters of a string *)
(* or the significant digits of a number, e the decimal exponent of a      *)
(* number (value = s * 10^e), neg its sign, kids the members of an object  *)
(* ([k, v], in Object.keys order) or the elements of an array (k = <<>>).  *)
(***************************************************************************)
MkVal(t, neg, s, e, kids) == [t |-> t, neg |-> neg, s |-> s, e |-> e, kids |-> kids]

JNull == MkVal("null", FALSE, <<>>, 0, <<>>)

JLit(t) == MkVal(t, FALSE, <<>>, 0, <<>>)

JStr(s) == MkVal("str", FALSE, s, 0, <<>>)

JArr(kids) == MkVal("arr", FALSE, <<>>, 0, kids)

JObj(kids) == MkVal("obj", FALSE, <<>>, 0, kids)

\* the largest finite double is 1.7976931348623157e308; a literal rounds to
\* Infinity when its 17 leading digits exceed ...158 at that magnitude
MaxDoubleDigits == <<"1", "7", "9", "7", "6", "9", "3", "1", "3", "4", "8", "6", "2", "3", "1", "5", "8">>

MaxDoubleExp == 308

MinDoubleExp == -324

\* the largest array index, 2^32 - 2
MaxArrayIndex == <<"4", "2", "9", "4", "9", "6", "7", "2", "9", "4">>

RECURSIVE StripTrailingZeros(_)
StripTrailingZeros(ds) ==
  IF ds # <<>> /\ ds[Len(ds)] = "0" THEN StripTrailingZeros(Sub(ds, 1, Len(ds) - 1)) ELSE ds

ExpInt(ds) ==
  LET d == StripLeadingZeros(ds) IN IF Len(d) > 6 THEN 1000000 ELSE DigitsToInt(d)

PadTo(ds, n) == ds \o Zeros(n - Len(ds))

\* the double a number literal denotes: sign, integer digits, fraction digits,
\* exponent sign and exponent digits
NumVal(neg, int, frac, eneg, edigits) ==
  LET e0 == (IF eneg THEN 0 - ExpInt(edigits) ELSE ExpInt(edigits)) - Len(frac)
      Of(d1, d2) ==
        LET e2 == e0 + (Len(d1) - Len(d2))
            sci == Len(d2) + e2 - 1
            n == IF Len(d2) > Len(MaxDoubleDigits) THEN Len(d2) ELSE Len(MaxDoubleDigits)
        IN IF d2 = <<>> THEN MkVal("num", neg, <<>>, 0, <<>>)
           ELSE IF sci > MaxDoubleExp \/ (sci = MaxDoubleExp /\ LexLess(PadTo(MaxDoubleDigits, n), PadTo(d2, n)))
                THEN MkVal("inf", neg, <<>>, 0, <<>>)
           ELSE IF sci < MinDoubleExp THEN MkVal("num", neg, <<>>, 0, <<>>)
           ELSE MkVal("num", neg, d2, e2, <<>>)
  IN The({The({Of(d1, d2) : d2 \in {StripTrailingZeros(d1)}}) : d1 \in {StripLeadingZeros(int \o frac)}})

IsArrayIndex(k) ==
  /\ k # <<>>
  /\ \A i \in 1..Len(k) : k[i] \in Digits
  /\ (k = <<"0">> \/ k[1] # "0")
  /\ ~DigitsLess(MaxArrayIndex, k)

\* where a new key goes in the key order of an object: integer-like keys
\* ascending first, then the other keys in insertion order
InsertAt(kids, k) ==
  IF IsArrayIndex(k)
  THEN LET later == {i \in 1..Len(kids) : ~IsArrayIndex(kids[i].k) \/ DigitsLess(k, kids[i].k)}
       IN IF later = {} THEN Len(kids) + 1 ELSE CHOOSE i \in later : \A j \in later : i <= j
  ELSE Len(kids) + 1

\* obj[k] = v as JSON.parse defines a member
ObjSet(kids, k, v) ==
  IF \E i \in 1..Len(kids) : kids[i].k = k
  THEN [i \in 1..Len(kids) |-> IF kids[i].k = k THEN [k |-> k, v |-> v] ELSE kids[i]]
  ELSE The({Sub(kids, 1, p - 1) \o <<[k |-> k, v |-> v]>> \o From(kids, p) : p \in {InsertAt(kids, k)}})

ObjectKeys(v) == [i \in 1..Len(v.kids) |-> v.kids[i].k]

(***************************************************************************)
(* JSON.parse: a recursive-descent parser of the JSON grammar.  A result   *)
(* is [ok, pos, val]: on success pos is the index after the value, on      *)
(* failure the index of the offending character.                           *)
(***************************************************************************)
PFail(p) == [ok |-> FALSE, pos |-> p, val |-> JNull]

POk(p, v) == [ok |-> TRUE, pos |-> p, val |-> v]

RECURSIVE SkipWs(_, _)
SkipWs(s, i) == IF i <= Len(s) /\ s[i] \in JsonWs THEN SkipWs(s, i + 1) ELSE i

RECURSIVE DigitRunEnd(_, _)
DigitRunEnd(s, i) == IF i <= Len(s) /\ s[i] \in Digits THEN DigitRunEnd(s, i + 1) ELSE i

Unescape(e) ==
  CASE e = "n" -> "\n" [] e = "t" -> "\t" [] e = "r" -> "\r" [] e = "f" -> "\f" [] e = "b" -> "<bs>" [] OTHER -> e

RECURSIVE ParseString(_, _, _)
\* i is the index after the opening quote, acc the characters decoded so far
ParseString(s, i, acc) ==
  IF i > Len(s) THEN PFail(i)
  ELSE IF s[i] = "\"" THEN POk(i + 1, JStr(acc))
  ELSE IF s[i] \in ControlChars THEN PFail(i)
  ELSE IF s[i] # "\\" THEN ParseString(s, i + 1, Append(acc, s[i]))
  ELSE IF i + 1 > Len(s) THEN PFail(i + 1)
  ELSE IF s[i + 1] \in {"\"", "\\", "/", "b", "f", "n", "r", "t"}
       THEN ParseString(s, i + 2, Append(acc, Unescape(s[i + 1])))
  ELSE IF s[i + 1] = "u"
       THEN LET bad == {j \in (i + 2)..(i + 5) : j > Len(s) \/ s[j] \notin HexDigits}
            IN IF bad # {} THEN PFail(CHOOSE j \in bad : \A k \in bad : j <= k)
               ELSE ParseString(s, i + 6, Append(acc, "<u>") \o Sub(s, i + 2, i + 5))
  ELSE PFail(i + 1)

\* s[i] is "-" or a digit
ParseNumber(s, i) ==
  LET neg == s[i] = "-"
      a == IF neg THEN i + 1 ELSE i
      Integer(b) ==
        LET hasFrac == b <= Len(s) /\ s[b] = "."
            Fraction(c) ==
              LET hasExp == c <= Len(s) /\ s[c] \in {"e", "E"}
                  sgn == hasExp /\ c + 1 <= Len(s) /\ s[c + 1] \in {"+", "-"}
                  d == IF sgn THEN c + 2 ELSE c + 1
                  Exponent(f) ==
                    IF b = a THEN PFail(a)
                    ELSE IF hasFrac /\ c = b + 1 THEN PFail(c)
                    ELSE IF hasExp /\ f = d THEN PFail(d)
                    ELSE POk(f, NumVal(neg, Sub(s, a, b - 1),
                                       IF hasFrac THEN Sub(s, b + 1, c - 1) ELSE <<>>,
                                       sgn /\ s[c + 1] = "-",
                                       IF hasExp THEN Sub(s, d, f - 1) ELSE <<>>))
              IN The({Exponent(x) : x \in {IF hasExp THEN DigitRunEnd(s, d) ELSE c}})
        IN The({Fraction(x) : x \in {IF hasFrac THEN DigitRunEnd(s, b + 1) ELSE b}})
  IN The({Integer(x) : x \in {IF a <= Len(s) /\ s[a] = "0" THEN a + 1 ELSE DigitRunEnd(s, a)}})

\* the literal lit is expected at i
ParseLiteral(s, i, lit, v) ==
  LET bad == {k \in 1..Len(lit) : i + k - 1 > Len(s) \/ s[i + k - 1] # lit[k]}
  IN IF bad = {} THEN POk(i + Len(lit), v)
     ELSE PFail(i + (CHOOSE k \in bad : \A j \in bad : k <= j) - 1)

RECURSIVE ParseValue(_, _)
RECURSIVE ParseElems(_, _, _)
RECURSIVE ParseMembers(_, _, _)

\* i is the index of the first character of an element
ParseElems(s, i, acc) ==
  LET Element(r) ==
        LET Separator(j) ==
              IF j > Len(s) THEN PFail(j)
              ELSE IF s[j] = "," THEN ParseElems(s, SkipWs(s, j + 1), Append(acc, [k |-> <<>>, v |-> r.val]))
              ELSE IF s[j] = "]" THEN POk(j + 1, JArr(Append(acc, [k |-> <<>>, v |-> r.val])))
              ELSE PFail(j)
        IN IF ~r.ok THEN r ELSE The({Separator(x) : x \in {SkipWs(s, r.pos)}})
  IN The({Element(x) : x \in {ParseValue(s, i)}})

\* i is the index where the opening quote of a key is expected
ParseMembers(s, i, acc) ==
  LET Key(key) ==
        LET Colon(c) ==
              LET Member(r) ==
                    LET Separator(j) ==
                          IF j > Len(s) THEN PFail(j)
                          ELSE IF s[j] = "," THEN ParseMembers(s, SkipWs(s, j + 1), ObjSet(acc, key.val.s, r.val))
                          ELSE IF s[j] = "}" THEN POk(j + 1, JObj(ObjSet(acc, key.val.s, r.val)))
                          ELSE PFail(j)
                    IN IF ~r.ok THEN r ELSE The({Separator(x) : x \in {SkipWs(s, r.pos)}})
              IN IF c > Len(s) \/ s[c] # ":" THEN PFail(c)
                 ELSE The({Member(x) : x \in {ParseValue(s, SkipWs(s, c + 1))}})
        IN IF ~key.ok THEN key ELSE The({Colon(x) : x \in {SkipWs(s, key.pos)}})
  IN IF i > Len(s) \/ s[i] # "\"" THEN PFail(i)
     ELSE The({Key(x) : x \in {ParseString(s, i + 1, <<>>)}})

ParseValue(s, i) ==
  LET Members(j) == IF j <= Len(s) /\ s[j] = "}" THEN POk(j + 1, JObj(<<>>)) ELSE ParseMembers(s, j, <<>>)
      Elems(j) == IF j <= Len(s) /\ s[j] = "]" THEN POk(j + 1, JArr(<<>>)) ELSE ParseElems(s, j, <<>>)
  IN IF i > Len(s) THEN PFail(i)
     ELSE IF s[i] = "{" THEN The({Members(x) : x \in {SkipWs(s, i + 1)}})
     ELSE IF s[i] = "[" THEN The({Elems(x) : x \in {SkipWs(s, i + 1)}})
     ELSE IF s[i] = "\"" THEN ParseString(s, i + 1, <<>>)
     ELSE IF s[i] = "-" \/ s[i] \in Digits THEN ParseNumber(s, i)
     ELSE IF s[i] = "t" THEN ParseLiteral(s, i, <<"t", "r", "u", "e">>, JLit("true"))
     ELSE IF s[i] = "f" THEN ParseLiteral(s, i, <<"f", "a", "l", "s", "e">>, JLit("false"))
     ELSE IF s[i] = "n" THEN ParseLiteral(s, i, <<"n", "u", "l", "l">>, JNull)
     ELSE PFail(i)

\* JSON.parse(s): one value, surrounded by optional whitespace
JsonParse(s) ==
  LET Value(r) ==
        LET End(j) == IF j <= Len(s) THEN PFail(j) ELSE r
        IN IF ~r.ok THEN r ELSE The({End(x) : x \in {SkipWs(s, r.pos)}})
  IN The({Value(x) : x \in {ParseValue(s, SkipWs(s, 1))}})

\* the message of the SyntaxError JSON.parse throws
SyntaxMessage(s, p) ==
  IF p > Len(s) THEN "Unexpected end of JSON input"
  ELSE "Unexpected token " \o s[p] \o " in JSON at position " \o ToString(p - 1)

(***************************************************************************)
(* JSON.stringify(value, null, indent)                                     *)
(***************************************************************************)
\* Number::toString of a finite double, Infinity being serialized as null
NumToText(v) ==
  LET k == Len(v.s)
      n == k + v.e
      x == n - 1
      mant == IF k = 1 THEN v.s ELSE <<v.s[1], ".">> \o From(v.s, 2)
      body == IF k <= n /\ n <= 21 THEN v.s \o Zeros(n - k)
              ELSE IF 0 < n /\ n <= 21 THEN Sub(v.s, 1, n) \o <<".">> \o From(v.s, n + 1)
              ELSE IF -6 < n /\ n <= 0 THEN <<"0", ".">> \o Zeros(0 - n) \o v.s
              ELSE IF x < 0 THEN mant \o <<"e", "-">> \o DigitsOf(0 - x)
              ELSE mant \o <<"e", "+">> \o DigitsOf(x)
  IN IF v.t = "inf" THEN <<"n", "u", "l", "l">>
     ELSE IF v.s = <<>> THEN <<"0">>
     ELSE IF v.neg THEN <<"-">> \o body
     ELSE body

QuoteChar(c) ==
  CASE c = "\"" -> <<"\\", "\"">>
    [] c = "\\" -> <<"\\", "\\">>
    [] c = "\n" -> <<"\\", "n">>
    [] c = "\t" -> <<"\\", "t">>
    [] c = "\r" -> <<"\\", "r">>
    [] c = "\f" -> <<"\\", "f">>
    [] c = "<bs>" -> <<"\\", "b">>
    [] c = "<u>" -> <<"\\", "u">>
    [] OTHER -> <<c>>

RECURSIVE QuoteChars(_)
QuoteChars(s) == IF s = <<>> THEN <<>> ELSE QuoteChar(Head(s)) \o QuoteChars(Tail(s))

\* QuoteJSONString
StrToText(s) == <<"\"">> \o QuoteChars(s) \o <<"\"">>

RECURSIVE Stringify(_, _, _)
RECURSIVE StringifyKids(_, _, _, _, _)

\* the members or elements from the i-th on, each preceded by its separator
StringifyKids(kids, i, isObj, gap, ind) ==
  IF i > Len(kids) THEN <<>>
  ELSE (IF i > 1 THEN <<",">> ELSE <<>>)
       \o (IF gap = <<>> THEN <<>> ELSE <<"\n">> \o ind)
       \o (IF isObj THEN StrToText(kids[i].k) \o <<":">> \o (IF gap = <<>> THEN <<>> ELSE <<" ">>) ELSE <<>>)
       \o Stringify(kids[i].v, gap, ind)
       \o StringifyKids(kids, i + 1, isObj, gap, ind)

\* SerializeJSONProperty: gap is the indent unit, ind the current indentation
Stringify(v, gap, ind) ==
  CASE v.t = "null" -> <<"n", "u", "l", "l">>
    [] v.t = "true" -> <<"t", "r", "u", "e">>
    [] v.t = "false" -> <<"f", "a", "l", "s", "e">>
    [] v.t \in {"num", "inf"} -> NumToText(v)
    [] v.t = "str" -> StrToText(v.s)
    [] v.t \in {"obj", "arr"} ->
         LET open == IF v.t = "obj" THEN "{" ELSE "["
             close == IF v.t = "obj" THEN "}" ELSE "]"
         IN IF v.kids = <<>> THEN <<open, close>>
            ELSE <<open>> \o StringifyKids(v.kids, 1, v.t = "obj", gap, ind \o gap)
                 \o (IF gap = <<>> THEN <<>> ELSE <<"\n">> \o ind) \o <<close>>

\* the largest indentation JSON.stringify honours
MaxGap == 10

JsonStringify(v, indent) == Stringify(v, Spaces(IF indent > MaxGap THEN MaxGap ELSE indent), <<>>)

(***************************************************************************)
(* The repair passes of fixJson.  Each is a global regular-expression      *)
(* replace: the text is scanned left to right, a match is replaced and the *)
(* scan resumes after it, a character where nothing matches is copied.     *)
(***************************************************************************)
RECURSIVE RegexWsEnd(_, _)
\* the index after the longest run of \s starting at i
RegexWsEnd(s, i) == IF i <= Len(s) /\ s[i] \in RegexWs THEN RegexWsEnd(s, i + 1) ELSE i

RECURSIVE IdentEnd(_, _)
IdentEnd(s, i) == IF i <= Len(s) /\ s[i] \in IdentChars THEN IdentEnd(s, i + 1) ELSE i

RECURSIVE QuotedEnd(_, _, _)
\* q(?:[^q\\]|\\.)*q with the opening quote before j: the index of the closing
\* quote, or 0 when the literal is not closed
QuotedEnd(s, j, q) ==
  IF j > Len(s) THEN 0
  ELSE IF s[j] = q THEN j
  ELSE IF s[j] # "\\" THEN QuotedEnd(s, j + 1, q)
  ELSE IF j + 1 <= Len(s) /\ s[j + 1] \notin LineTerminators THEN QuotedEnd(s, j + 2, q)
  ELSE 0

\* ("(?:[^"\\]|\\.)*") matched at i
DqStringEnd(s, i) == IF i <= Len(s) /\ s[i] = "\"" THEN QuotedEnd(s, i + 1, "\"") ELSE 0

RECURSIVE LineEnd(_, _)
\* [^\n]* from i: the index of the next newline or the end of the text
LineEnd(s, i) == IF i <= Len(s) /\ s[i] # "\n" THEN LineEnd(s, i + 1) ELSE i

RECURSIVE BlockEnd(_, _)
\* [\s\S]*?\*\/ from i: the index of the "/" closing the comment, or 0
BlockEnd(s, i) ==
  IF i + 1 > Len(s) THEN 0
  ELSE IF s[i] = "*" /\ s[i + 1] = "/" THEN i + 1
  ELSE BlockEnd(s, i + 1)

RECURSIVE StripLineComments(_, _)
\* s.replace(/("(?:[^"\\]|\\.)*")|\/\/[^\n]*/g, (m, str) => str !== undefined ? str : '')
StripLineComments(s, i) ==
  LET String(e) ==
        IF e # 0 THEN Sub(s, i, e) \o StripLineComments(s, e + 1)
        ELSE IF s[i] = "/" /\ i + 1 <= Len(s) /\ s[i + 1] = "/"
             THEN The({StripLineComments(s, j) : j \in {LineEnd(s, i + 2)}})
        ELSE <<s[i]>> \o StripLineComments(s, i + 1)
  IN IF i > Len(s) THEN <<>> ELSE The({String(x) : x \in {DqStringEnd(s, i)}})

RECURSIVE StripBlockComments(_, _)
\* s.replace(/("(?:[^"\\]|\\.)*")|\/\*[\s\S]*?\*\//g, (m, str) => str !== undefined ? str : '')
StripBlockComments(s, i) ==
  LET Comment(e) ==
        IF e # 0 THEN StripBlockComments(s, e + 1) ELSE <<s[i]>> \o StripBlockComments(s, i + 1)
      String(e) ==
        IF e # 0 THEN Sub(s, i, e) \o StripBlockComments(s, e + 1)
        ELSE IF s[i] = "/" /\ i + 1 <= Len(s) /\ s[i + 1] = "*"
             THEN The({Comment(x) : x \in {BlockEnd(s, i + 2)}})
        ELSE <<s[i]>> \o StripBlockComments(s, i + 1)
  IN IF i > Len(s) THEN <<>> ELSE The({String(x) : x \in {DqStringEnd(s, i)}})

\* \bw\b matches at i
WordAt(s, i, w) ==
  /\ i + Len(w) - 1 <= Len(s)
  /\ Sub(s, i, i + Len(w) - 1) = w
  /\ (i = 1 \/ s[i - 1] \notin WordChars)
  /\ (i + Len(w) > Len(s) \/ s[i + Len(w)] \notin WordChars)

RECURSIVE ReplaceWord(_, _, _, _)
\* s.replace(/\bw\b/g, r)
ReplaceWord(s, i, w, r) ==
  IF i > Len(s) THEN <<>>
  ELSE IF WordAt(s, i, w) THEN r \o ReplaceWord(s, i + Len(w), w, r)
  ELSE <<s[i]>> \o ReplaceWord(s, i + 1, w, r)

\* the Python / JS literals pass
ReplaceLiterals(s) ==
  LET a == ReplaceWord(s, 1, <<"T", "r", "u", "e">>, <<"t", "r", "u", "e">>)
      b == The({ReplaceWord(x, 1, <<"F", "a", "l", "s", "e">>, <<"f", "a", "l", "s", "e">>) : x \in {a}})
      c == The({ReplaceWord(x, 1, <<"N", "o", "n", "e">>, <<"n", "u", "l", "l">>) : x \in {b}})
  IN The({ReplaceWord(x, 1, <<"u", "n", "d", "e", "f", "i", "n", "e", "d">>, <<"n", "u", "l", "l">>) : x \in {c}})

RECURSIVE UnescapeSingle(_)
\* inner.replace(/\\'/g, "'")
UnescapeSingle(s) ==
  IF s = <<>> THEN <<>>
  ELSE IF Len(s) >= 2 /\ s[1] = "\\" /\ s[2] = "'" THEN <<"'">> \o UnescapeSingle(From(s, 3))
  ELSE <<Head(s)>> \o UnescapeSingle(Tail(s))

RECURSIVE EscapeDouble(_)
\* .replace(/"/g, '\\"')
EscapeDouble(s) ==
  IF s = <<>> THEN <<>>
  ELSE IF Head(s) = "\"" THEN <<"\\", "\"">> \o EscapeDouble(Tail(s))
  ELSE <<Head(s)>> \o EscapeDouble(Tail(s))

\* '([^'\\]*(?:\\.[^'\\]*)*)' matched at i
SqStringEnd(s, i) == IF i <= Len(s) /\ s[i] = "'" THEN QuotedEnd(s, i + 1, "'") ELSE 0

RECURSIVE ConvertSingleQuotes(_, _)
\* the single-quoted strings pass
ConvertSingleQuotes(s, i) ==
  LET String(e) ==
        IF e # 0
        THEN <<"\"">> \o EscapeDouble(UnescapeSingle(Sub(s, i + 1, e - 1))) \o <<"\"">>
             \o ConvertSingleQuotes(s, e + 1)
        ELSE <<s[i]>> \o ConvertSingleQuotes(s, i + 1)
  IN IF i > Len(s) THEN <<>> ELSE The({String(x) : x \in {SqStringEnd(s, i)}})

\* ([{,]\s*)([a-zA-Z_$][a-zA-Z0-9_$]*)(\s*:) matched at i: the index of the
\* colon, or 0
KeyMatchEnd(s, i) ==
  LET Name(a) ==
        LET Colon(c) == IF c <= Len(s) /\ s[c] = ":" THEN c ELSE 0
        IN IF a <= Len(s) /\ s[a] \in IdentStart
           THEN The({Colon(x) : x \in {RegexWsEnd(s, IdentEnd(s, a))}})
           ELSE 0
  IN IF s[i] \in {"{", ","} THEN The({Name(x) : x \in {RegexWsEnd(s, i + 1)}}) ELSE 0

RECURSIVE QuoteKeys(_, _)
\* s.replace(/([{,]\s*)([a-zA-Z_$][a-zA-Z0-9_$]*)(\s*:)/g, '$1"$2"$3')
QuoteKeys(s, i) ==
  LET Key(c) ==
        LET Quoted(a, b) ==
              Sub(s, i, a - 1) \o <<"\"">> \o Sub(s, a, b - 1) \o <<"\"">> \o Sub(s, b, c)
              \o QuoteKeys(s, c + 1)
        IN IF c # 0
           THEN The({The({Quoted(a, b) : b \in {IdentEnd(s, a)}}) : a \in {RegexWsEnd(s, i + 1)}})
           ELSE <<s[i]>> \o QuoteKeys(s, i + 1)
  IN IF i > Len(s) THEN <<>> ELSE The({Key(x) : x \in {KeyMatchEnd(s, i)}})

\* ,(\s*[}\]]) matched at i: the index of the closing bracket, or 0
TrailingCommaEnd(s, i) ==
  LET Closer(a) == IF a <= Len(s) /\ s[a] \in {"}", "]"} THEN a ELSE 0
  IN IF s[i] = "," THEN The({Closer(x) : x \in {RegexWsEnd(s, i + 1)}}) ELSE 0

RECURSIVE StripTrailingCommas(_, _)
\* s.replace(/,(\s*[}\]])/g, '$1')
StripTrailingCommas(s, i) ==
  LET Comma(e) ==
        IF e # 0 THEN Sub(s, i + 1, e) \o StripTrailingCommas(s, e + 1)
        ELSE <<s[i]>> \o StripTrailingCommas(s, i + 1)
  IN IF i > Len(s) THEN <<>> ELSE The({Comma(x) : x \in {TrailingCommaEnd(s, i)}})

\* the six passes in the order fixJson applies them
Repair(raw) ==
  LET s1 == StripLineComments(raw, 1)
      s2 == The({StripBlockComments(s, 1) : s \in {s1}})
      s3 == The({ReplaceLiterals(s) : s \in {s2}})
      s4 == The({ConvertSingleQuotes(s, 1) : s \in {s3}})
      s5 == The({QuoteKeys(s, 1) : s \in {s4}})
  IN The({StripTrailingCommas(s, 1) : s \in {s5}})

(***************************************************************************)
(* The utilities of jsonUtils                                              *)
(***************************************************************************)
\* the error of a result without error
null == "<null>"

EmptyMessage == "Input is empty"

ParseMessage(s) == SyntaxMessage(s, JsonParse(s).pos)

validateJson(jsonString) ==
  LET Parsed(r) ==
        IF r.ok THEN [isValid |-> TRUE, error |-> null]
        ELSE [isValid |-> FALSE, error |-> SyntaxMessage(jsonString, r.pos)]
  IN IF Trim(jsonString) = <<>> THEN [isValid |-> FALSE, error |-> EmptyMessage]
     ELSE The({Parsed(x) : x \in {JsonParse(jsonString)}})

\* fixJson without the early return for an already valid text
fixJsonAlwaysRepair(raw) ==
  LET Original(p) ==
        LET Repaired(s) ==
              LET Again(q) ==
                    IF q.ok THEN [fixed |-> s, wasFixed |-> TRUE, error |-> null]
                    ELSE [fixed |-> raw, wasFixed |-> FALSE, error |-> SyntaxMessage(raw, p.pos)]
              IN The({Again(x) : x \in {JsonParse(s)}})
        IN The({Repaired(x) : x \in {Repair(raw)}})
  IN IF Trim(raw) = <<>> THEN [fixed |-> raw, wasFixed |-> FALSE, error |-> EmptyMessage]
     ELSE The({Original(x) : x \in {JsonParse(raw)}})

\* fixJson returning the repaired text without parsing it again
fixJsonNoRecheck(raw) ==
  LET Original(p) ==
        LET Repaired(s) ==
              LET Again(q) ==
                    [fixed |-> s, wasFixed |-> TRUE, error |-> null]
              IN The({Again(x) : x \in {JsonParse(s)}})
        IN IF p.ok THEN [fixed |-> raw, wasFixed |-> FALSE, error |-> null]
           ELSE The({Repaired(x) : x \in {Repair(raw)}})
  IN IF Trim(raw) = <<>> THEN [fixed |-> raw, wasFixed |-> FALSE, error |-> EmptyMessage]
     ELSE The({Original(x) : x \in {JsonParse(raw)}})

\* fixJson testing !raw instead of !raw.trim()
fixJsonNoTrim(raw) ==
  LET Original(p) ==
        LET Repaired(s) ==
              LET Again(q) ==
                    IF q.ok THEN [fixed |-> s, wasFixed |-> TRUE, error |-> null]
                    ELSE [fixed |-> raw, wasFixed |-> FALSE, error |-> SyntaxMessage(raw, p.pos)]
              IN The({Again(x) : x \in {JsonParse(s)}})
        IN IF p.ok THEN [fixed |-> raw, wasFixed |-> FALSE, error |-> null]
           ELSE The({Repaired(x) : x \in {Repair(raw)}})
  IN IF raw = <<>> THEN [fixed |-> raw, wasFixed |-> FALSE, error |-> EmptyMessage]
     ELSE The({Original(x) : x \in {JsonParse(raw)}})

\* fixJson reporting the failure of the repaired text
fixJsonRepairedError(raw) ==
  LET Original(p) ==
        LET Repaired(s) ==
              LET Again(q) ==
                    IF q.ok THEN [fixed |-> s, wasFixed |-> TRUE, error |-> null]
                    ELSE [fixed |-> raw, wasFixed |-> FALSE, error |-> SyntaxMessage(s, q.pos)]
              IN The({Again(x) : x \in {JsonParse(s)}})
        IN IF p.ok THEN [fixed |-> raw, wasFixed |-> FALSE, error |-> null]
           ELSE The({Repaired(x) : x \in {Repair(raw)}})
  IN IF Trim(raw) = <<>> THEN [fixed |-> raw, wasFixed |-> FALSE, error |-> EmptyMessage]
     ELSE The({Original(x) : x \in {JsonParse(raw)}})

fixJson(raw) ==
  LET Original(p) ==
        LET Repaired(s) ==
              LET Again(q) ==
                    IF q.ok THEN [fixed |-> s, wasFixed |-> TRUE, error |-> null]
                    ELSE [fixed |-> raw, wasFixed |-> FALSE, error |-> SyntaxMessage(raw, p.pos)]
              IN The({Again(x) : x \in {JsonParse(s)}})
        IN IF p.ok THEN [fixed |-> raw, wasFixed |-> FALSE, error |-> null]
           ELSE The({Repaired(x) : x \in {Repair(raw)}})
  IN IF Trim(raw) = <<>> THEN [fixed |-> raw, wasFixed |-> FALSE, error |-> EmptyMessage]
     ELSE The({Original(x) : x \in {JsonParse(raw)}})

\* formatJson and minifyJson throw what JSON.parse throws
Threw(name, message) == [threw |-> TRUE, name |-> name, message |-> message, out |-> <<>>]

Returned(out) == [threw |-> FALSE, name |-> "", message |-> "", out |-> out]

formatJson(jsonString, indent) ==
  LET Parsed(r) ==
        IF r.ok THEN Returned(JsonStringify(r.val, indent))
        ELSE Threw("SyntaxError", SyntaxMessage(jsonString, r.pos))
  IN The({Parsed(x) : x \in {JsonParse(jsonString)}})

minifyJson(jsonString) ==
  LET Parsed(r) ==
        IF r.ok THEN Returned(JsonStringify(r.val, 0))
        ELSE Threw("SyntaxError", SyntaxMessage(jsonString, r.pos))
  IN The({Parsed(x) : x \in {JsonParse(jsonString)}})

(***************************************************************************)
(* The earlier utilities of src/utils/jsonUtils.js                         *)
(***************************************************************************)
\* error.message.match(/position (\d+)/): the messages that name a position
\* get it appended once more
utilsValidateJson(jsonString) ==
  LET Parsed(r) ==
        IF r.ok THEN [isValid |-> TRUE, error |-> null]
        ELSE [isValid |-> FALSE,
              error |-> IF r.pos > Len(jsonString) THEN SyntaxMessage(jsonString, r.pos)
                        ELSE SyntaxMessage(jsonString, r.pos) \o " at position " \o ToString(r.pos - 1)]
  IN IF Trim(jsonString) = <<>> THEN [isValid |-> FALSE, error |-> EmptyMessage]
     ELSE The({Parsed(x) : x \in {JsonParse(jsonString)}})

utilsFormatJson(jsonString, indent) ==
  LET Parsed(r) ==
        IF r.ok THEN Returned(JsonStringify(r.val, indent))
        ELSE Threw("Error", "Invalid JSON")
  IN The({Parsed(x) : x \in {JsonParse(jsonString)}})

utilsMinifyJson(jsonString) ==
  LET Parsed(r) ==
        IF r.ok THEN Returned(JsonStringify(r.val, 0))
        ELSE Threw("Error", "Invalid JSON")
  IN The({Parsed(x) : x \in {JsonParse(jsonString)}})

(***************************************************************************)
(* Calls of the repair and validation utilities on typed texts             *)
(***************************************************************************)
\* the number of fragments a typed text is made of
MaxFrags == 4

MaxRelaxFrags == 4

MaxFmtFrags == 3

NoRes == [op |-> "none", fixed |-> <<>>, wasFixed |-> FALSE, isValid |-> FALSE, error |-> null]

NoOut == [op |-> "none", arg |-> <<>>, indent |-> 0, threw |-> FALSE, name |-> "", message |-> "", out |-> <<>>]

\* pathResult and pathError while no path is typed
NoPath == [defined |-> TRUE, val |-> JNull, pathError |-> null]

\* the editor replaces the tree view: the tree view is unmounted and its state
\* and the state of its nodes are gone
TreeUnmount ==
  /\ searchTerm' = <<>> /\ filterMode' = FALSE /\ collapsed' = <<>> /\ beforeSearch' = <<>>
  /\ parsed' = JNull
  /\ UNCHANGED <<viewer, kept>>

CtlInit ==
  /\ value = <<>>
  /\ undoStack = <<>>
  /\ undoLen = 0
  /\ pushed = <<>>
  /\ viewMode = "edit"
  /\ formattedVal = <<>>
  /\ error = ""
  /\ activeId = 0
  /\ snippets = <<>>
  /\ indentSize = 2
  /\ viewer = "JsonTreeView"
  /\ searchTerm = <<>>
  /\ filterMode = FALSE
  /\ parsed = JNull
  /\ collapsed = <<>>
  /\ kept = <<>>
  /\ beforeSearch = <<>>
  /\ jsonPath = <<>>
  /\ pathResult = NoPath

UtilInit ==
  /\ text = <<>>
  /\ orig = <<>>
  /\ typed = 0
  /\ res = NoRes
  /\ out1 = NoOut
  /\ out2 = NoOut

FixFrags == {
  <<"{">>,
  <<"}">>,
  <<"[">>,
  <<"]">>,
  <<",">>,
  <<",", "]">>,
  <<"a", ":">>,
  <<"1">>,
  <<"T", "r", "u", "e">>,
  <<"\"", "T", "r", "u", "e", "\"">>,
  <<" ">>,
  <<"'", "b", "'">>,
  <<"/", "/", "c", "\n">>
}

TypeFix ==
  /\ res.op = "none"
  /\ typed < MaxFrags
  /\ \E f \in FixFrags : text' = text \o f
  /\ typed' = typed + 1
  /\ UNCHANGED <<orig, res, out1, out2>>
  /\ UNCHANGED ctlVars

CallFixJson ==
  /\ res.op = "none"
  /\ \E r \in {fixJson(text)} :
       res' = [op |-> "fixJson", fixed |-> r.fixed, wasFixed |-> r.wasFixed, isValid |-> FALSE, error |-> r.error]
  /\ UNCHANGED <<text, orig, typed, out1, out2>>
  /\ UNCHANGED ctlVars

CallValidateJson ==
  /\ res.op = "none"
  /\ \E r \in {validateJson(text)} :
       res' = [op |-> "validateJson", fixed |-> <<>>, wasFixed |-> FALSE, isValid |-> r.isValid, error |-> r.error]
  /\ UNCHANGED <<text, orig, typed, out1, out2>>
  /\ UNCHANGED ctlVars

CallUtilsValidateJson ==
  /\ res.op = "none"
  /\ \E r \in {utilsValidateJson(text)} :
       res' = [op |-> "utilsValidateJson", fixed |-> <<>>, wasFixed |-> FALSE, isValid |-> r.isValid, error |-> r.error]
  /\ UNCHANGED <<text, orig, typed, out1, out2>>
  /\ UNCHANGED ctlVars

InitFix == UtilInit /\ CtlInit

NextFix == TypeFix \/ CallFixJson \/ CallValidateJson \/ CallUtilsValidateJson

SpecFix == InitFix /\ [][NextFix]_vars

(***************************************************************************)
(* Relaxed object texts: a valid text is typed, then keys lose their       *)
(* quotes and closing brackets gain a trailing comma, then fixJson is      *)
(* called on the result.                                                   *)
(***************************************************************************)
RelaxFrags == {
  <<"{">>,
  <<"}">>,
  <<"[">>,
  <<"]">>,
  <<",">>,
  <<"\"", "a", "\"", ":">>,
  <<"\"", "T", "r", "u", "e", "\"", ":">>,
  <<"1">>,
  <<"\"", "T", "r", "u", "e", "\"">>,
  <<"\"", "x", ",", "}", "\"">>,
  <<" ">>
}

TypeRelax ==
  /\ res.op = "none"
  /\ text = orig
  /\ typed < MaxRelaxFrags
  /\ \E f \in RelaxFrags : text' = text \o f /\ orig' = orig \o f
  /\ typed' = typed + 1
  /\ UNCHANGED <<res, out1, out2>>
  /\ UNCHANGED ctlVars

RECURSIVE DqOpeners(_, _)
\* the indices of the opening quotes of the double-quoted literals of s
DqOpeners(s, i) ==
  IF i > Len(s) THEN {}
  ELSE IF DqStringEnd(s, i) # 0 THEN {i} \cup DqOpeners(s, DqStringEnd(s, i) + 1)
  ELSE DqOpeners(s, i + 1)

InsideLiteral(s, j) == \E k \in DqOpeners(s, 1) : k <= j /\ j <= DqStringEnd(s, k)

RECURSIVE PrevNonWs(_, _)
\* the index of the last character before i that is not whitespace, or 0
PrevNonWs(s, i) ==
  IF i <= 1 THEN 0 ELSE IF s[i - 1] \in JsonWs THEN PrevNonWs(s, i - 1) ELSE i - 1

\* the literal opening at i is an identifier-shaped key after "{" or ","
IsQuotedKey(s, i) ==
  LET e == DqStringEnd(s, i)
      p == PrevNonWs(s, i)
      c == SkipWs(s, e + 1)
  IN /\ i \in DqOpeners(s, 1)
     /\ p # 0 /\ s[p] \in {"{", ","}
     /\ e > i + 1 /\ s[i + 1] \in IdentStart
     /\ \A k \in (i + 1)..(e - 1) : s[k] \in IdentChars
     /\ c <= Len(s) /\ s[c] = ":"

\* j is a closing bracket that follows a member or an element
IsCloser(s, j) ==
  LET p == PrevNonWs(s, j)
  IN /\ s[j] \in {"}", "]"}
     /\ ~InsideLiteral(s, j)
     /\ p # 0 /\ s[p] \notin {"{", "[", ","}

IsObjectText(s) == JsonParse(s).ok /\ JsonParse(s).val.t = "obj"

UnquoteKey ==
  /\ res.op = "none"
  /\ IsObjectText(orig)
  /\ \E i \in 1..Len(text) :
       /\ IsQuotedKey(text, i)
       /\ text' = Sub(text, 1, i - 1) \o Sub(text, i + 1, DqStringEnd(text, i) - 1)
                  \o From(text, DqStringEnd(text, i) + 1)
  /\ UNCHANGED <<orig, typed, res, out1, out2>>
  /\ UNCHANGED ctlVars

AddTrailingComma ==
  /\ res.op = "none"
  /\ IsObjectText(orig)
  /\ \E j \in 1..Len(text) :
       /\ IsCloser(text, j)
       /\ text' = Sub(text, 1, j - 1) \o <<",">> \o From(text, j)
  /\ UNCHANGED <<orig, typed, res, out1, out2>>
  /\ UNCHANGED ctlVars

InitRelax == UtilInit /\ CtlInit

NextRelax == TypeRelax \/ UnquoteKey \/ AddTrailingComma \/ CallFixJson

SpecRelax == InitRelax /\ [][NextRelax]_vars

(***************************************************************************)
(* Calls of the formatting utilities on typed texts: a text is formatted,  *)
(* and the text or the formatted text is minified.                         *)
(***************************************************************************)
FmtFrags == {
  <<"{", "\"", "1", "0", "\"", ":", "1">>,
  <<"{", "\"", "b", "\"", ":", "1">>,
  <<",", "\"", "2", "\"", ":", "1">>,
  <<",", "\"", "b", "\"", ":", "2">>,
  <<"}">>,
  <<"[">>,
  <<"]">>,
  <<",">>,
  <<"1">>,
  <<"e", "3", "0", "9">>,
  <<"-", "0">>,
  <<" ">>,
  <<"\"", "x", "\"">>
}

\* the indent sizes tried: none, and the default of the indent selector
Indents == {0, 2}

TypeFmt ==
  /\ out1.op = "none" /\ out2.op = "none"
  /\ typed < MaxFmtFrags
  /\ \E f \in FmtFrags : text' = text \o f
  /\ typed' = typed + 1
  /\ UNCHANGED <<orig, res, out1, out2>>
  /\ UNCHANGED ctlVars

OutOf(op, arg, indent, r) ==
  [op |-> op, arg |-> arg, indent |-> indent, threw |-> r.threw, name |-> r.name, message |-> r.message, out |-> r.out]

CallFormatJson ==
  /\ out1.op = "none" /\ out2.op = "none"
  /\ \E n \in Indents : out1' = OutOf("formatJson", text, n, formatJson(text, n))
  /\ UNCHANGED <<text, orig, typed, res, out2>>
  /\ UNCHANGED ctlVars

CallUtilsFormatJson ==
  /\ out1.op = "none" /\ out2.op = "none"
  /\ \E n \in Indents : out1' = OutOf("utilsFormatJson", text, n, utilsFormatJson(text, n))
  /\ UNCHANGED <<text, orig, typed, res, out2>>
  /\ UNCHANGED ctlVars

\* what a minify call is applied to: the formatted text if there is one
MinifyArg == IF out1.op = "none" THEN text ELSE out1.out

CallMinifyJson ==
  /\ out2.op = "none"
  /\ ~out1.threw
  /\ out2' = OutOf("minifyJson", MinifyArg, 0, minifyJson(MinifyArg))
  /\ UNCHANGED <<text, orig, typed, res, out1>>
  /\ UNCHANGED ctlVars

CallUtilsMinifyJson ==
  /\ out2.op = "none"
  /\ ~out1.threw
  /\ out2' = OutOf("utilsMinifyJson", MinifyArg, 0, utilsMinifyJson(MinifyArg))
  /\ UNCHANGED <<text, orig, typed, res, out1>>
  /\ UNCHANGED ctlVars

InitFmt == UtilInit /\ CtlInit

NextFmt == TypeFmt \/ CallFormatJson \/ CallUtilsFormatJson \/ CallMinifyJson \/ CallUtilsMinifyJson

SpecFmt == InitFmt /\ [][NextFmt]_vars

(***************************************************************************)
(* Properties of the repair and validation utilities                       *)
(***************************************************************************)
Valid(s) == JsonParse(s).ok

OnlyWhitespace(s) == \A i \in 1..Len(s) : s[i] \in RegexWs

\* C1: for every text that strict parse accepts, fixJson returns the text
\* character for character, wasFixed = false and no error
ValidInputVerbatim ==
  (res.op = "fixJson" /\ Valid(text)) =>
    (res.fixed = text /\ res.wasFixed = FALSE /\ res.error = null)

\* fixJson was called on a valid text that the repair passes would have changed
ValidInputRepairable == res.op = "fixJson" /\ Valid(text) /\ Repair(text) # text

\* C2: a result without error carries a text strict parse accepts, and
\* wasFixed is true exactly when the input fails strict parse and the
\* repaired text passes it
NoErrorMeansParseable ==
  res.op = "fixJson" =>
    /\ (res.error = null => Valid(res.fixed))
    /\ (res.wasFixed <=> (~Valid(text) /\ Valid(Repair(text))))

\* fixJson repaired an invalid text
RepairedInput == res.op = "fixJson" /\ res.wasFixed /\ res.error = null /\ res.fixed # text

\* C3: an empty or whitespace-only input gets the error 'Input is empty'
\* from fixJson and validateJson, fixJson returning the input with
\* wasFixed = false
EmptyInputRejected ==
  (res.op # "none" /\ OnlyWhitespace(text)) =>
    /\ res.error = EmptyMessage
    /\ (res.op = "fixJson" => res.fixed = text /\ res.wasFixed = FALSE)
    /\ (res.op # "fixJson" => res.isValid = FALSE)

\* fixJson was called on a text of whitespace characters
WhitespaceFixed == res.op = "fixJson" /\ text # <<>> /\ OnlyWhitespace(text)

\* C4: when the input and the repaired text both fail strict parse, fixJson
\* returns the input unchanged, wasFixed = false and the message of the
\* failure of the input itself
OriginalErrorReported ==
  (res.op = "fixJson" /\ ~OnlyWhitespace(text) /\ ~Valid(text) /\ ~Valid(Repair(text))) =>
    (res.fixed = text /\ res.wasFixed = FALSE /\ res.error = ParseMessage(text))

\* fixJson failed on a text whose repaired form fails with another message
RepairFailedDifferently ==
  /\ res.op = "fixJson" /\ ~OnlyWhitespace(text)
  /\ ~Valid(text) /\ ~Valid(Repair(text))
  /\ ParseMessage(Repair(text)) # ParseMessage(text)

RECURSIVE DqLiterals(_, _)
\* the contents of the double-quoted string literals of s, in order; comments
\* and single-quoted string literals are passed over
DqLiterals(s, i) ==
  IF i > Len(s) THEN <<>>
  ELSE IF DqStringEnd(s, i) # 0
       THEN <<Sub(s, i + 1, DqStringEnd(s, i) - 1)>> \o DqLiterals(s, DqStringEnd(s, i) + 1)
  ELSE IF SqStringEnd(s, i) # 0 THEN DqLiterals(s, SqStringEnd(s, i) + 1)
  ELSE IF s[i] = "/" /\ i + 1 <= Len(s) /\ s[i + 1] = "/" THEN DqLiterals(s, LineEnd(s, i + 2))
  ELSE IF s[i] = "/" /\ i + 1 <= Len(s) /\ s[i + 1] = "*" /\ BlockEnd(s, i + 2) # 0
       THEN DqLiterals(s, BlockEnd(s, i + 2) + 1)
  ELSE DqLiterals(s, i + 1)

RECURSIVE IsSubsequence(_, _)
IsSubsequence(a, b) ==
  IF a = <<>> THEN TRUE
  ELSE IF b = <<>> THEN FALSE
  ELSE IF Head(a) = Head(b) THEN IsSubsequence(Tail(a), Tail(b))
  ELSE IsSubsequence(a, Tail(b))

\* C5: for an input that fails strict parse, the repair passes leave the
\* characters inside every double-quoted string literal of the input
\* unchanged: each literal of the input is found, in order and with the same
\* content, among the literals of the fixed text
StringLiteralsUntouched ==
  (res.op = "fixJson" /\ ~Valid(text)) =>
    IsSubsequence(DqLiterals(text, 1), DqLiterals(res.fixed, 1))

\* C6: for a text obtained from a valid object text by removing the quotes of
\* identifier-shaped keys and adding trailing commas, fixJson returns no
\* error, wasFixed = true and a text that parses to the value of the original
RelaxedObjectRepaired ==
  (res.op = "fixJson" /\ IsObjectText(orig) /\ text # orig) =>
    /\ res.error = null
    /\ res.wasFixed = TRUE
    /\ JsonParse(res.fixed).val = JsonParse(orig).val

(***************************************************************************)
(* Properties of the formatting utilities                                  *)
(***************************************************************************)
RECURSIVE Canon(_)
\* a value with -0 read as 0: the values equal as numbers are equal records
Canon(v) ==
  [v EXCEPT !.neg = IF v.t = "num" /\ v.s = <<>> THEN FALSE ELSE v.neg,
            !.kids = [i \in 1..Len(v.kids) |-> [k |-> v.kids[i].k, v |-> Canon(v.kids[i].v)]]]

\* C7: for every valid text and every indent, the minified formatted text
\* parses to a value structurally equal to the value of the text
RoundTripPreservesValue ==
  (out1.op # "none" /\ out2.op # "none" /\ Valid(text)) =>
    (~out2.threw /\ Canon(JsonParse(out2.out).val) = Canon(JsonParse(text).val))

RECURSIVE MemberKeys(_, _, _)
\* the keys of the object whose first key opens at i, in the order in which
\* they first appear in the text s
MemberKeys(s, i, acc) ==
  LET key == ParseString(s, i + 1, <<>>)
      r == ParseValue(s, SkipWs(s, SkipWs(s, key.pos) + 1))
      j == SkipWs(s, r.pos)
      seen == IF \E n \in 1..Len(acc) : acc[n] = key.val.s THEN acc ELSE Append(acc, key.val.s)
  IN IF s[j] = "," THEN MemberKeys(s, SkipWs(s, j + 1), seen) ELSE seen

\* the keys of a valid object text in the order of the text
TextKeys(s) ==
  LET i == SkipWs(s, SkipWs(s, 1) + 1)
  IN IF s[i] = "}" THEN <<>> ELSE MemberKeys(s, i, <<>>)

\* the keys whose child lines JsonNode renders, in rendering order
JsonNodeKeys(v) == ObjectKeys(v)

\* C8: the formatted text and the child lines of the tree view list the keys
\* of an object in the order in which they first appear in the source text
KeysInSourceOrder ==
  (out1.op # "none" /\ IsObjectText(text)) =>
    /\ TextKeys(out1.out) = TextKeys(text)
    /\ JsonNodeKeys(JsonParse(out1.out).val) = TextKeys(text)

InvalidJsonFailure(o) == o.threw /\ o.name = "Error" /\ o.message = "Invalid JSON" /\ o.out = <<>>

\* C9: formatJson and minifyJson called with a text strict parse rejects fail
\* with an Error whose message is 'Invalid JSON' and return no text
InvalidJsonKind ==
  /\ (out1.op # "none" /\ ~Valid(out1.arg)) => InvalidJsonFailure(out1)
  /\ (out2.op # "none" /\ ~Valid(out2.arg)) => InvalidJsonFailure(out2)

(***************************************************************************)
(* The tree view: JsonNode of JsonTreeView and JsonItem of JsonOutput.  A  *)
(* node is named by its path, the indices of the children leading to it    *)
(* from the root.                                                          *)
(***************************************************************************)
Uppers == <<"A", "B", "C", "D", "E", "F", "G", "H", "I", "J", "K", "L", "M", "N", "O", "P", "Q", "R", "S", "T", "U", "V", "W", "X", "Y", "Z">>

Lowers == <<"a", "b", "c", "d", "e", "f", "g", "h", "i", "j", "k", "l", "m", "n", "o", "p", "q", "r", "s", "t", "u", "v", "w", "x", "y", "z">>

\* String.prototype.toLowerCase
ToLowerCase(s) ==
  [i \in 1..Len(s) |-> IF \E n \in 1..Len(Uppers) : Uppers[n] = s[i]
                       THEN Lowers[CHOOSE n \in 1..Len(Uppers) : Uppers[n] = s[i]]
                       ELSE s[i]]

\* String.prototype.includes
Includes(s, sub) == \E i \in 0..(Len(s) - Len(sub)) : Sub(s, i + 1, i + Len(sub)) = sub

\* String(value) of null or a primitive
JsString(v) ==
  CASE v.t = "str" -> v.s
    [] v.t = "inf" -> (IF v.neg THEN <<"-">> ELSE <<>>) \o <<"I", "n", "f", "i", "n", "i", "t", "y">>
    [] v.t = "num" -> NumToText(v)
    [] OTHER -> Stringify(v, <<>>, <<>>)

IsContainer(v) == v.t \in {"obj", "arr"}

\* the keyName prop: null for the root and for the elements of an array
NoKey == [has |-> FALSE, k |-> <<>>]

KeyName(k) == [has |-> TRUE, k |-> k]

\* keyName={isArray ? null : k} of the i-th child of v
ChildKeyName(v, i) == IF v.t = "arr" THEN NoKey ELSE KeyName(v.kids[i].k)

\* Object.keys(v)[i - 1]: the key of an object, the index of an array
OwnKey(v, i) == IF v.t = "arr" THEN DigitsOf(i - 1) ELSE v.kids[i].k

RECURSIVE NodeAt(_, _)
\* the value of the node at path p under v
NodeAt(v, p) == IF p = <<>> THEN v ELSE NodeAt(v.kids[Head(p)].v, Tail(p))

RECURSIVE KeyNameAt(_, _)
\* the keyName prop of the node at path p under v
KeyNameAt(v, p) ==
  IF p = <<>> THEN NoKey
  ELSE IF Len(p) = 1 THEN ChildKeyName(v, p[1])
  ELSE KeyNameAt(v.kids[Head(p)].v, Tail(p))

RECURSIVE Paths(_)
\* the paths of all the nodes of v
Paths(v) ==
  {<<>>} \cup UNION {{<<i>> \o q : q \in Paths(v.kids[i].v)} : i \in 1..Len(v.kids)}

\* matchesSearch of JsonNode and of JsonItem, term being the searchTerm prop
matchesSearch(keyName, v, term) ==
  IF term = <<>> THEN TRUE
  ELSE IF keyName.has /\ Includes(ToLowerCase(keyName.k), term) THEN TRUE
  ELSE IF v.t # "null" /\ ~IsContainer(v) THEN Includes(ToLowerCase(JsString(v)), term)
  ELSE FALSE

RECURSIVE recurse(_, _)
\* recurse of hasMatchingDescendant, check of hasMatchingChildren
recurse(v, term) ==
  IF ~IsContainer(v) THEN Includes(ToLowerCase(JsString(v)), term)
  ELSE \E i \in 1..Len(v.kids) :
         Includes(ToLowerCase(OwnKey(v, i)), term) \/ recurse(v.kids[i].v, term)

\* hasMatchingDescendant of JsonNode, hasMatchingChildren of JsonItem
hasMatchingDescendant(keyName, v, term) ==
  IF term = <<>> THEN TRUE
  ELSE IF ~IsContainer(v) THEN matchesSearch(keyName, v, term)
  ELSE matchesSearch(keyName, v, term) \/ recurse(v, term)

\* the depth from which JsonNode starts collapsed
CollapseDepth == 3

\* useState(depth > 3) of JsonNode, useState(false) of JsonItem
DefaultCollapsed(component, depth) ==
  IF component = "JsonTreeView" THEN depth > CollapseDepth ELSE FALSE

\* the filter dropping every node that does not match itself
FilteredByOwnMatch(keyName, v, term, filter) == filter /\ ~matchesSearch(keyName, v, term)

\* the node returns null: if (filterMode && !hasMatchingDescendant) return null
Filtered(keyName, v, term, filter) == filter /\ ~hasMatchingDescendant(keyName, v, term)

\* isOpen = !collapsed || forceOpen
IsOpen(keyName, v, term, flag) == ~flag \/ (term # <<>> /\ hasMatchingDescendant(keyName, v, term))

RECURSIVE Mount(_, _, _, _, _, _, _)
\* the nodes React keeps mounted under the node v at path p, each with its
\* collapsed flag: a node already mounted keeps its flag, a new one starts
\* from the default; the children of a node are mounted when it renders them
Mount(component, keyName, v, p, term, filter, old) ==
  LET Node(flag) ==
        {<<p, flag>>} \cup
        (IF /\ ~Filtered(keyName, v, term, filter)
            /\ IsContainer(v) /\ v.kids # <<>>
            /\ IsOpen(keyName, v, term, flag)
         THEN UNION {Mount(component, ChildKeyName(v, i), v.kids[i].v, Append(p, i), term, filter, old)
                       : i \in 1..Len(v.kids)}
         ELSE {})
  IN The({Node(x) : x \in {IF p \in DOMAIN old THEN old[p] ELSE DefaultCollapsed(component, Len(p))}})

\* the collapsed flags after a render of the tree of the value v
Render(component, v, term, filter, old) ==
  LET Flags(S) == [q \in {x[1] : x \in S} |-> \E x \in S : x[1] = q /\ x[2]]
  IN The({Flags(x) : x \in {Mount(component, NoKey, v, <<>>, term, filter, old)}})

(***************************************************************************)
(* The session controller: the document text and its undo stack            *)
(***************************************************************************)
\* the capacity of the undo stack
UndoCap == 50

\* the number of distinct texts the user types
MaxText == 52

\* Array.prototype.slice(a, b)
Slice(s, a, b) == Sub(s, a + 1, IF b < Len(s) THEN b ELSE Len(s))

\* pushUndo pushing the empty text too
pushUndoEmptyToo(stack, v) == Slice(<<v>> \o stack, 0, UndoCap)

\* pushUndo keeping one entry too many
pushUndoOffByOne(stack, v) ==
  IF v = <<>> THEN stack ELSE Slice(<<v>> \o stack, 0, UndoCap + 1)

\* the undo stack after pushUndo, v being the document text
pushUndo(stack, v) ==
  IF v = <<>> THEN stack ELSE Slice(<<v>> \o stack, 0, UndoCap)

\* the history of the pushes after pushUndo
Pushed(hist, v) == IF v = <<>> THEN hist ELSE <<v>> \o hist

\* the k-th text the user types
Text(k) == DigitsOf(k)

\* the number of the next text: one more than the newest text pushed
NextNumber == IF pushed = <<>> THEN 1 ELSE DigitsToInt(Head(pushed)) + 1

\* the textarea's onChange: the user replaces the text by the next text
handleChange ==
  /\ viewMode = "edit"
  /\ NextNumber <= MaxText
  /\ value' = Text(NextNumber)
  /\ UNCHANGED <<undoStack, undoLen, pushed, viewMode, formattedVal, error, activeId>>
  /\ UNCHANGED <<sessVars, treeVars, pathVars>>
  /\ UNCHANGED utilVars

\* handleUndo restoring the oldest entry and clearing the error on an empty
\* stack
handleUndoOldest ==
  /\ IF undoStack = <<>>
     THEN /\ error' = ""
          /\ UNCHANGED <<value, undoStack, undoLen, pushed, viewMode, formattedVal, activeId>>
          /\ UNCHANGED <<sessVars, treeVars, pathVars>>
     ELSE /\ undoStack' = Sub(undoStack, 1, Len(undoStack) - 1)
          /\ undoLen' = Len(undoStack) - 1
          /\ pushed' = Tail(pushed)
          /\ value' = undoStack[Len(undoStack)]
          /\ error' = ""
          /\ viewMode' = "edit"
          /\ activeId' = 0
          /\ TreeUnmount
          /\ UNCHANGED <<formattedVal, sessVars, pathVars>>
  /\ UNCHANGED utilVars

handleUndo ==
  /\ IF undoStack = <<>> THEN UNCHANGED ctlVars
     ELSE /\ undoStack' = Tail(undoStack)
          /\ undoLen' = Len(Tail(undoStack))
          /\ pushed' = Tail(pushed)
          /\ value' = Head(undoStack)
          /\ error' = ""
          /\ viewMode' = "edit"
          /\ activeId' = 0
          /\ TreeUnmount
          /\ UNCHANGED <<formattedVal, sessVars, pathVars>>
  /\ UNCHANGED utilVars

handleClear ==
  /\ IF Trim(value) = <<>> /\ viewMode = "edit" THEN UNCHANGED ctlVars
     ELSE /\ undoStack' = pushUndo(undoStack, value)
          /\ undoLen' = Len(pushUndo(undoStack, value))
          /\ pushed' = Pushed(pushed, value)
          /\ value' = <<>>
          /\ error' = ""
          /\ formattedVal' = <<>>
          /\ viewMode' = "edit"
          /\ activeId' = 0
          /\ TreeUnmount
          /\ UNCHANGED <<sessVars, pathVars>>
  /\ UNCHANGED utilVars

handleNew ==
  /\ undoStack' = pushUndo(undoStack, value)
  /\ undoLen' = Len(pushUndo(undoStack, value))
  /\ pushed' = Pushed(pushed, value)
  /\ value' = <<>>
  /\ error' = ""
  /\ formattedVal' = <<>>
  /\ viewMode' = "edit"
  /\ activeId' = 0
  /\ TreeUnmount
  /\ UNCHANGED <<sessVars, pathVars>>
  /\ UNCHANGED utilVars

\* reader.onload of handleFileUpload: the file holds the text after the one
\* being replaced
handleFileUpload ==
  /\ value # <<>>
  /\ DigitsToInt(value) + 1 <= MaxText
  /\ undoStack' = pushUndo(undoStack, value)
  /\ undoLen' = Len(pushUndo(undoStack, value))
  /\ pushed' = Pushed(pushed, value)
  /\ value' = Text(DigitsToInt(value) + 1)
  /\ error' = ""
  /\ viewMode' = "edit"
  /\ activeId' = 0
  /\ TreeUnmount
  /\ UNCHANGED <<formattedVal, sessVars, pathVars>>
  /\ UNCHANGED utilVars

InitUndo == UtilInit /\ CtlInit

NextUndo == handleChange \/ handleUndo \/ handleClear \/ handleNew \/ handleFileUpload

SpecUndo == InitUndo /\ [][NextUndo]_vars

\* the texts numbered from a down to b
RECURSIVE Texts(_, _)
Texts(a, b) == IF a < b THEN <<>> ELSE <<Text(a)>> \o Texts(a - 1, b)

\* C10: the undo stack never holds more than 50 entries, they are the most
\* recent pushes, newest first; a push onto a full stack drops the oldest
\* entry; after 51 pushes the stack holds pushes 51 down to 2, and each undo
\* restores the newest entry and removes it
UndoStackBounded ==
  /\ [](/\ Len(undoStack) <= UndoCap
        /\ undoStack = Sub(pushed, 1, Len(undoStack))
        /\ (pushed = Texts(UndoCap + 1, 1) /\ Len(undoStack) = UndoCap
              => undoStack = Texts(UndoCap + 1, 2)))
  /\ [][(Len(undoStack) = UndoCap /\ pushed' = <<value>> \o pushed)
          => undoStack' = <<value>> \o Sub(undoStack, 1, UndoCap - 1)]_vars
  /\ [][Len(undoStack') < Len(undoStack)
          => (value' = Head(undoStack) /\ undoStack' = Tail(undoStack))]_vars

\* 51 texts were pushed and 50 undos emptied the stack: the second text is
\* restored and the first is out of reach
FirstPushEvicted ==
  undoStack = <<>> /\ pushed = <<Text(1)>> /\ value = Text(2)

(***************************************************************************)
(* The session controller with its formatting, loading and snippet         *)
(* handlers.  The user types, uploads and fetches the texts of CtlDocs.    *)
(***************************************************************************)
\* the number of undo entries and snippets a session holds at a time
MaxHeld == 2

\* the texts the user brings in: nothing, a blank, a text fixJson cannot
\* repair, a text it repairs
CtlDocs == {
  <<>>,
  <<" ">>,
  <<"[">>,
  <<"[", "1", ",", "]">>
}

\* the options of the indent select the user picks from
IndentSizes == {2, 4}

\* the collapsed flag each node had when it was last mounted, now being the
\* flags of the mounted nodes and old those kept so far
Kept(now, old) ==
  [p \in DOMAIN now \cup DOMAIN old |-> IF p \in DOMAIN now THEN now[p] ELSE old[p]]

\* the tree view showing jsonString after the handler: JsonTreeView is
\* mounted afresh when the editor was shown, rendered again otherwise
TreeShow(jsonString) ==
  /\ parsed' = JsonParse(jsonString).val
  /\ IF viewMode = "tree"
     THEN /\ collapsed' = Render(viewer, parsed', ToLowerCase(searchTerm), filterMode, collapsed)
          /\ UNCHANGED <<viewer, searchTerm, filterMode, beforeSearch>>
     ELSE /\ collapsed' = Render(viewer, parsed', <<>>, FALSE, <<>>)
          /\ searchTerm' = <<>>
          /\ filterMode' = FALSE
          /\ beforeSearch' = <<>>
          /\ UNCHANGED viewer
  /\ kept' = IF jsonString = formattedVal THEN Kept(collapsed', kept) ELSE collapsed'

\* the textarea's onChange with the text v
onChange(v) ==
  /\ viewMode = "edit"
  /\ value' = v
  /\ UNCHANGED <<undoStack, undoLen, pushed, viewMode, formattedVal, error, activeId>>
  /\ UNCHANGED <<sessVars, treeVars, pathVars>>
  /\ UNCHANGED utilVars

\* onEdit of the tree view: back to the editor
onEdit ==
  /\ viewMode = "tree"
  /\ viewMode' = "edit"
  /\ TreeUnmount
  /\ UNCHANGED <<value, undoStack, undoLen, pushed, formattedVal, error, activeId>>
  /\ UNCHANGED <<sessVars, pathVars>>
  /\ UNCHANGED utilVars

\* the indent select's onChange
setIndentSize(n) ==
  /\ indentSize' = n
  /\ UNCHANGED <<value, undoStack, undoLen, pushed, viewMode, formattedVal, error, activeId>>
  /\ UNCHANGED <<snippets, treeVars, pathVars>>
  /\ UNCHANGED utilVars

\* handleFormat pushing the text before it looks at the error of fixJson
handleFormatPushFirst ==
  /\ IF Trim(value) = <<>>
     THEN /\ error' = ""
          /\ UNCHANGED <<value, undoStack, undoLen, pushed, viewMode, formattedVal, activeId, treeVars>>
     ELSE \E r \in {fixJson(Trim(value))} :
            /\ undoStack' = pushUndo(undoStack, value)
            /\ undoLen' = Len(pushUndo(undoStack, value))
            /\ pushed' = Pushed(pushed, value)
            /\ IF r.error # null
               THEN /\ error' = r.error
                    /\ UNCHANGED <<value, viewMode, formattedVal, activeId, treeVars>>
               ELSE \E pretty \in {formatJson(r.fixed, indentSize).out} :
                      /\ error' = ""
                      /\ value' = pretty
                      /\ formattedVal' = pretty
                      /\ viewMode' = "tree"
                      /\ TreeShow(pretty)
                      /\ UNCHANGED activeId
  /\ UNCHANGED <<sessVars, pathVars>>
  /\ UNCHANGED utilVars

handleFormat ==
  /\ IF Trim(value) = <<>>
     THEN /\ error' = ""
          /\ UNCHANGED <<value, undoStack, undoLen, pushed, viewMode, formattedVal, activeId, treeVars>>
     ELSE \E r \in {fixJson(Trim(value))} :
            IF r.error # null
            THEN /\ error' = r.error
                 /\ UNCHANGED <<value, undoStack, undoLen, pushed, viewMode, formattedVal, activeId, treeVars>>
            ELSE \E pretty \in {formatJson(r.fixed, indentSize).out} :
                   /\ error' = ""
                   /\ undoStack' = pushUndo(undoStack, value)
                   /\ undoLen' = Len(pushUndo(undoStack, value))
                   /\ pushed' = Pushed(pushed, value)
                   /\ value' = pretty
                   /\ formattedVal' = pretty
                   /\ viewMode' = "tree"
                   /\ TreeShow(pretty)
                   /\ UNCHANGED activeId
  /\ UNCHANGED <<sessVars, pathVars>>
  /\ UNCHANGED utilVars

handleMinify ==
  /\ IF Trim(value) = <<>>
     THEN /\ error' = ""
          /\ UNCHANGED <<value, undoStack, undoLen, pushed, viewMode, formattedVal, activeId, treeVars>>
     ELSE \E r \in {fixJson(Trim(value))} :
            IF r.error # null
            THEN /\ error' = r.error
                 /\ UNCHANGED <<value, undoStack, undoLen, pushed, viewMode, formattedVal, activeId, treeVars>>
            ELSE /\ error' = ""
                 /\ undoStack' = pushUndo(undoStack, value)
                 /\ undoLen' = Len(pushUndo(undoStack, value))
                 /\ pushed' = Pushed(pushed, value)
                 /\ value' = minifyJson(r.fixed).out
                 /\ viewMode' = "edit"
                 /\ TreeUnmount
                 /\ UNCHANGED <<formattedVal, activeId>>
  /\ UNCHANGED <<sessVars, pathVars>>
  /\ UNCHANGED utilVars

\* reader.onload of handleFileUpload, result being the text of the file
onload(result) ==
  /\ undoStack' = pushUndo(undoStack, value)
  /\ undoLen' = Len(pushUndo(undoStack, value))
  /\ pushed' = Pushed(pushed, value)
  /\ value' = result
  /\ error' = ""
  /\ viewMode' = "edit"
  /\ activeId' = 0
  /\ TreeUnmount
  /\ UNCHANGED <<formattedVal, sessVars, pathVars>>
  /\ UNCHANGED utilVars

\* handleFetchUrl when the request answers with the text body
handleFetchUrl(body) ==
  /\ undoStack' = pushUndo(undoStack, value)
  /\ undoLen' = Len(pushUndo(undoStack, value))
  /\ pushed' = Pushed(pushed, value)
  /\ value' = body
  /\ error' = ""
  /\ viewMode' = "edit"
  /\ activeId' = 0
  /\ TreeUnmount
  /\ UNCHANGED <<formattedVal, sessVars, pathVars>>
  /\ UNCHANGED utilVars

\* handleFetchUrl when the request fails: the catch branch
handleFetchUrlFailed ==
  /\ error' = "Failed to fetch: " \o "Failed to fetch"
  /\ UNCHANGED <<value, undoStack, undoLen, pushed, viewMode, formattedVal, activeId>>
  /\ UNCHANGED <<sessVars, treeVars, pathVars>>
  /\ UNCHANGED utilVars

\* snippets.filter(s => s.id !== id)
WithoutId(n) == SelectSeq(snippets, LAMBDA s : s.id # n)

handleSwitchSnippet(s) ==
  /\ IF activeId = s.id THEN UNCHANGED ctlVars
     ELSE /\ undoStack' = pushUndo(undoStack, value)
          /\ undoLen' = Len(pushUndo(undoStack, value))
          /\ pushed' = Pushed(pushed, value)
          /\ value' = s.json
          /\ error' = ""
          /\ formattedVal' = <<>>
          /\ viewMode' = "edit"
          /\ activeId' = s.id
          /\ TreeUnmount
          /\ UNCHANGED <<sessVars, pathVars>>
  /\ UNCHANGED utilVars

\* the ids in use: those of the snippets stored and the active one
UsedIds == {snippets[i].id : i \in 1..Len(snippets)} \cup {activeId}

\* the id of the next snippet: Date.now() differs from every id in use, and
\* ids are only compared for equality
NextId == CHOOSE n \in 1..(Len(snippets) + 2) : n \notin UsedIds /\ \A m \in 1..(n - 1) : m \in UsedIds

\* handleSave and confirmSave: the save dialog opens for a text that is not
\* blank, and confirming it stores the text as the newest snippet
confirmSave ==
  \E src \in {IF viewMode = "tree" THEN formattedVal ELSE value} :
    /\ Trim(src) # <<>>
    /\ snippets' = <<[id |-> NextId, json |-> src]>> \o snippets
    /\ activeId' = NextId
    /\ UNCHANGED <<value, undoStack, undoLen, pushed, viewMode, formattedVal, error>>
    /\ UNCHANGED <<indentSize, treeVars, pathVars>>
    /\ UNCHANGED utilVars

handleRestore(s) ==
  /\ undoStack' = pushUndo(undoStack, value)
  /\ undoLen' = Len(pushUndo(undoStack, value))
  /\ pushed' = Pushed(pushed, value)
  /\ value' = s.json
  /\ error' = ""
  /\ viewMode' = "edit"
  /\ activeId' = s.id
  /\ TreeUnmount
  /\ UNCHANGED <<formattedVal, sessVars, pathVars>>
  /\ UNCHANGED utilVars

\* handleDeleteSnippet without the reset of the active id
handleDeleteSnippetKeepActive(n) ==
  /\ snippets' = WithoutId(n)
  /\ UNCHANGED <<value, undoStack, undoLen, pushed, viewMode, formattedVal, error, activeId>>
  /\ UNCHANGED <<indentSize, treeVars, pathVars>>
  /\ UNCHANGED utilVars

handleDeleteSnippet(n) ==
  /\ snippets' = WithoutId(n)
  /\ activeId' = IF activeId = n THEN 0 ELSE activeId
  /\ UNCHANGED <<value, undoStack, undoLen, pushed, viewMode, formattedVal, error>>
  /\ UNCHANGED <<indentSize, treeVars, pathVars>>
  /\ UNCHANGED utilVars

handleSidebarDelete(n) ==
  /\ snippets' = WithoutId(n)
  /\ IF activeId = n THEN value' = <<>> /\ activeId' = 0 ELSE UNCHANGED <<value, activeId>>
  /\ UNCHANGED <<undoStack, undoLen, pushed, viewMode, formattedVal, error>>
  /\ UNCHANGED <<indentSize, treeVars, pathVars>>
  /\ UNCHANGED utilVars

\* the session may still push onto the undo stack or save a snippet
CanPush == Len(pushed) + Len(snippets) < MaxHeld

InitCtl == UtilInit /\ CtlInit

NextCtl ==
  \/ \E v \in CtlDocs : onChange(v)
  \/ \E n \in IndentSizes : setIndentSize(n)
  \/ CanPush /\ handleFormat
  \/ CanPush /\ handleMinify
  \/ CanPush /\ handleClear
  \/ CanPush /\ handleNew
  \/ CanPush /\ \E result \in CtlDocs : onload(result)
  \/ CanPush /\ \E body \in CtlDocs : handleFetchUrl(body)
  \/ handleFetchUrlFailed
  \/ CanPush /\ \E i \in 1..Len(snippets) : handleSwitchSnippet(snippets[i])
  \/ CanPush /\ \E i \in 1..Len(snippets) : handleRestore(snippets[i])
  \/ CanPush /\ confirmSave
  \/ \E i \in 1..Len(snippets) : handleDeleteSnippet(snippets[i].id)
  \/ \E i \in 1..Len(snippets) : handleSidebarDelete(snippets[i].id)
  \/ handleUndo
  \/ onEdit

SpecCtl == InitCtl /\ [][NextCtl]_vars

\* Format and Minify go through: the text is not blank and fixJson returns
\* no error for it
Fixable == Trim(value) # <<>> /\ fixJson(Trim(value)).error = null

\* a destructive action of the controller: successful format, successful
\* minify, clear, new, file load, URL load, snippet switch, snippet restore
Destructive ==
  \/ Fixable /\ handleFormat
  \/ Fixable /\ handleMinify
  \/ ~(Trim(value) = <<>> /\ viewMode = "edit") /\ handleClear
  \/ handleNew
  \/ \E result \in CtlDocs : onload(result)
  \/ \E body \in CtlDocs : handleFetchUrl(body)
  \/ \E i \in 1..Len(snippets) : activeId # snippets[i].id /\ handleSwitchSnippet(snippets[i])
  \/ \E i \in 1..Len(snippets) : handleRestore(snippets[i])

\* C11 as stated: every destructive action puts the text as it was before
\* the action on top of the undo stack, the empty text included
PriorTextAlwaysPushed ==
  [][Destructive => undoStack' = Slice(<<value>> \o undoStack, 0, UndoCap)]_vars

\* C11: every destructive action puts the text as it was before the action
\* on top of the undo stack when that text is not empty, and leaves the undo
\* stack as it is when that text is empty
PriorTextPushedUnlessEmpty ==
  [][Destructive => undoStack' = IF value = <<>> THEN undoStack
                                 ELSE Slice(<<value>> \o undoStack, 0, UndoCap)]_vars

\* Format replaced the text [1,] by its repaired pretty form and the undo
\* stack holds [1,]
FormatPushedPriorText ==
  /\ viewMode = "tree"
  /\ value = formatJson(<<"[", "1", "]">>, indentSize).out
  /\ undoStack = <<(<<"[", "1", ",", "]">>)>>

\* C12: undo on a non-empty stack takes the entry pushed last off the stack,
\* makes it the document text and leaves the other entries in their order;
\* undo on an empty stack leaves the text, the view mode, the active snippet,
\* the error and the stack as they are
UndoRestoresNewest ==
  [][handleUndo =>
       IF undoStack # <<>>
       THEN /\ Head(undoStack) = Head(pushed)
            /\ value' = Head(undoStack)
            /\ undoStack' = Tail(undoStack)
       ELSE UNCHANGED <<value, viewMode, activeId, error, undoStack>>]_vars

\* Format pushed [1,], Clear pushed the pretty text and emptied formattedVal,
\* and undo brought the pretty text back and left [1,] on the stack
UndoRestoredNewest ==
  /\ undoStack = <<(<<"[", "1", ",", "]">>)>>
  /\ pushed = undoStack
  /\ value = formatJson(<<"[", "1", "]">>, 2).out
  /\ formattedVal = <<>>
  /\ snippets = <<>>
  /\ error = "" /\ viewMode = "edit" /\ activeId = 0

\* C13: when Format or Minify runs on a text for which fixJson returns an
\* error, the error message becomes that error and the text, the undo stack,
\* the view mode, formattedVal and the active snippet stay as they are
FixErrorOnlySetsError ==
  [][(/\ Trim(value) # <<>>
      /\ fixJson(Trim(value)).error # null
      /\ handleFormat \/ handleMinify)
       => /\ error' = fixJson(Trim(value)).error
          /\ UNCHANGED <<value, undoStack, undoLen, viewMode, formattedVal, activeId>>]_vars

\* Format or Minify ran on the text [ and left its parse error, the text
\* being still in the editor
FixErrorShown ==
  /\ value = <<"[">>
  /\ viewMode = "edit"
  /\ error = ParseMessage(<<"[">>)

(***************************************************************************)
(* The tree view in use: the user formats a document, searches, filters,   *)
(* collapses and expands nodes, goes back to the editor and formats again. *)
(* JsonFormatter mounts the tree view when a format succeeds and unmounts  *)
(* it when it shows the editor; viewer is the component that draws the     *)
(* tree, JsonTreeView with JsonNode or JsonOutput with JsonItem.           *)
(***************************************************************************)
\* the number of times the document is formatted in one session
MaxFormats == 2

\* the documents shown in the tree
TreeDocs == {
  <<"{", "\"", "a", "\"", ":", "{", "\"", "b", "\"", ":", "1", "}", ",", "\"", "c", "\"", ":", "[", "1", ",", "2", "]", "}">>,
  <<"[", "[", "[", "[", "[", "1", "]", "]", "]", "]", ",", "n", "u", "l", "l", "]">>
}

\* the texts typed into the search box
SearchInputs == {<<>>, <<"B">>, <<"0">>, <<"n">>}

\* parsed.data of JsonTreeView, jsonData of JsonOutput
Data == parsed

\* the searchTerm prop of the nodes: JsonTreeView stores the term lower-cased,
\* JsonOutput passes searchTerm.toLowerCase()
Term == ToLowerCase(searchTerm)

\* the search box's onChange and the clear button
setSearchTerm(input) ==
  /\ viewMode = "tree"
  /\ \E stored \in {IF viewer = "JsonTreeView" THEN ToLowerCase(input) ELSE input} :
       /\ searchTerm' = stored
       /\ collapsed' = Render(viewer, Data, ToLowerCase(stored), filterMode, collapsed)
       /\ kept' = Kept(collapsed', kept)
       /\ beforeSearch' = IF stored = <<>> THEN <<>> ELSE IF searchTerm = <<>> THEN kept ELSE beforeSearch
  /\ UNCHANGED <<viewer, parsed, filterMode>>
  /\ UNCHANGED <<value, undoStack, undoLen, pushed, viewMode, formattedVal, error, activeId>>
  /\ UNCHANGED <<sessVars, pathVars>>
  /\ UNCHANGED utilVars

\* the filter checkbox's onChange
setFilterMode(checked) ==
  /\ viewMode = "tree"
  /\ filterMode' = checked
  /\ collapsed' = Render(viewer, Data, Term, checked, collapsed)
  /\ kept' = Kept(collapsed', kept)
  /\ UNCHANGED <<viewer, parsed, searchTerm, beforeSearch>>
  /\ UNCHANGED <<value, undoStack, undoLen, pushed, viewMode, formattedVal, error, activeId>>
  /\ UNCHANGED <<sessVars, pathVars>>
  /\ UNCHANGED utilVars

\* the node at path p draws its line: it is mounted and does not return null
Rendered(p) ==
  /\ p \in DOMAIN collapsed
  /\ ~Filtered(KeyNameAt(Data, p), NodeAt(Data, p), Term, filterMode)

\* the node at path p is a container that is not empty: its line has a toggle
HasToggle(p) == IsContainer(NodeAt(Data, p)) /\ NodeAt(Data, p).kids # <<>>

\* a click on the toggle of the node at path p: setCollapsed(c => !c)
toggle(p) ==
  /\ viewMode = "tree"
  /\ Rendered(p)
  /\ HasToggle(p)
  /\ collapsed' = Render(viewer, Data, Term, filterMode, [collapsed EXCEPT ![p] = ~collapsed[p]])
  /\ kept' = Kept(collapsed', kept)
  /\ beforeSearch' = [q \in DOMAIN beforeSearch \ {p} |-> beforeSearch[q]]
  /\ UNCHANGED <<viewer, parsed, searchTerm, filterMode>>
  /\ UNCHANGED <<value, undoStack, undoLen, pushed, viewMode, formattedVal, error, activeId>>
  /\ UNCHANGED <<sessVars, pathVars>>
  /\ UNCHANGED utilVars

\* the editor holds one of the documents as the draft
InitTree ==
  /\ UtilInit
  /\ value \in TreeDocs
  /\ undoStack = <<>>
  /\ undoLen = 0
  /\ pushed = <<>>
  /\ viewMode = "edit"
  /\ formattedVal = <<>>
  /\ error = ""
  /\ activeId = 0
  /\ snippets = <<>>
  /\ indentSize = 2
  /\ viewer \in {"JsonTreeView", "JsonOutput"}
  /\ searchTerm = <<>>
  /\ filterMode = FALSE
  /\ parsed = JNull
  /\ collapsed = <<>>
  /\ kept = <<>>
  /\ beforeSearch = <<>>
  /\ jsonPath = <<>>
  /\ pathResult = NoPath

NextTree ==
  \/ Len(pushed) < MaxFormats /\ handleFormat
  \/ onEdit
  \/ \E input \in SearchInputs : setSearchTerm(input)
  \/ \E checked \in BOOLEAN : setFilterMode(checked)
  \/ \E p \in DOMAIN collapsed : toggle(p)

SpecTree == InitTree /\ [][NextTree]_vars

\* the key name of the node at path p and its value
KeyOf(p) == KeyNameAt(Data, p)

ValueOf(p) == NodeAt(Data, p)

\* C14: a node matches exactly when the search term is empty, or its key
\* name lower-cased contains the term, or its value is a primitive or null
\* whose string form lower-cased contains the term
MatchStatusAsSpecified ==
  viewMode = "tree" =>
    \A p \in DOMAIN collapsed :
      matchesSearch(KeyOf(p), ValueOf(p), Term)
        <=> \/ Term = <<>>
            \/ KeyOf(p).has /\ Includes(ToLowerCase(KeyOf(p).k), Term)
            \/ ~IsContainer(ValueOf(p)) /\ Includes(ToLowerCase(JsString(ValueOf(p))), Term)

\* the node at path p, or a node of its subtree as it is rendered, matches
SubtreeMatches(p) ==
  \E q \in Paths(ValueOf(p)) : matchesSearch(KeyOf(p \o q), ValueOf(p \o q), Term)

\* C15: with a search term, hasMatchingDescendant of a node is true exactly
\* when the node or a node of its subtree, as rendered, matches; without a
\* search term it is true for every node
DescendantMatchAsSpecified ==
  viewMode = "tree" =>
    \A p \in Paths(Data) :
      hasMatchingDescendant(KeyOf(p), ValueOf(p), Term)
        <=> (Term = <<>> \/ SubtreeMatches(p))

\* the search term 0 on the document {"a":{"b":1},"c":[1,2]}: no node matches
\* it, and hasMatchingDescendant of the root is true
IndexMatchedAsKey ==
  /\ viewMode = "tree"
  /\ Term = <<"0">>
  /\ hasMatchingDescendant(NoKey, Data, Term)
  /\ \A p \in Paths(Data) : ~matchesSearch(KeyOf(p), ValueOf(p), Term)

\* the paths of the nodes that draw a line
RenderedPaths == {p \in Paths(Data) : Rendered(p)}

\* C16: with the filter on and a search term, a node whose
\* hasMatchingDescendant is false draws no line and neither does any node of
\* its subtree, and every node whose hasMatchingDescendant is true is
\* rendered; for {"a":{"b":1},"c":[1,2]} and the term b only the root, a and
\* b are rendered; with the filter off or no search term no node is omitted
FilterOmitsExactly ==
  viewMode = "tree" =>
    /\ (filterMode /\ Term # <<>>) =>
         \A p \in Paths(Data) :
           IF hasMatchingDescendant(KeyOf(p), ValueOf(p), Term)
           THEN Rendered(p)
           ELSE \A q \in Paths(ValueOf(p)) : ~Rendered(p \o q)
    /\ (filterMode /\ Term = <<"b">> /\ Data.t = "obj") =>
         RenderedPaths = {<<>>, <<1>>, <<1, 1>>}
    /\ (~filterMode \/ Term = <<>>) =>
         \A p \in DOMAIN collapsed : Rendered(p)

\* the filter is on with the term b on the document {"a":{"b":1},"c":[1,2]}:
\* the branch a/b is rendered and c is not
BranchFiltered ==
  /\ viewMode = "tree" /\ filterMode /\ Term = <<"b">> /\ Data.t = "obj"
  /\ Rendered(<<1, 1>>)
  /\ <<2>> \in DOMAIN collapsed /\ ~Rendered(<<2>>)

\* the document shown after the step
DataAfter == parsed'

\* C17: a container shown for the first time is collapsed exactly when its
\* depth is greater than 3; so a document whose containers all lie at depth
\* 3 or less is first shown with every node rendered and every container
\* expanded
FirstShownCollapsedByDepth ==
  [][viewMode' = "tree" =>
       /\ \A p \in DOMAIN collapsed' :
            (p \notin DOMAIN collapsed /\ IsContainer(NodeAt(DataAfter, p)))
              => (collapsed'[p] <=> Len(p) > CollapseDepth)
       /\ (/\ viewMode = "edit"
           /\ \A p \in Paths(DataAfter) :
                IsContainer(NodeAt(DataAfter, p)) => Len(p) <= CollapseDepth)
            => /\ DOMAIN collapsed' = Paths(DataAfter)
               /\ \A p \in Paths(DataAfter) : ~collapsed'[p]]_vars

\* JsonOutput shows [[[[[1]]]],null] with the container at depth 4 expanded
DeepContainerExpanded ==
  /\ viewMode = "tree"
  /\ viewer = "JsonOutput"
  /\ searchTerm = <<>>
  /\ <<1, 1, 1, 1>> \in DOMAIN collapsed
  /\ ~collapsed[<<1, 1, 1, 1>>]

\* C18: a container the user has toggled keeps its state until the user
\* toggles it again: whenever it is mounted again on the same document, after
\* an ancestor was collapsed and expanded, the search term or the filter
\* changed, or the tree view was left and entered again, it has the flag it
\* had when it was last mounted
ToggledStateKept ==
  [][(viewMode' = "tree" /\ formattedVal' = formattedVal) =>
       \A p \in DOMAIN collapsed' :
         (p \notin DOMAIN collapsed /\ p \in DOMAIN kept) => collapsed'[p] = kept[p]]_vars

\* a non-empty container with a matching descendant is rendered with its
\* children
ForcedOpen ==
  \A p \in DOMAIN collapsed :
    (Rendered(p) /\ HasToggle(p) /\ hasMatchingDescendant(KeyOf(p), ValueOf(p), Term))
      => \A i \in 1..Len(ValueOf(p).kids) : Append(p, i) \in DOMAIN collapsed

\* C19: while a search term is active every non-empty container with a
\* matching descendant is rendered expanded; a change of the search term
\* changes no collapsed flag; and when the search term is cleared every node
\* the user did not toggle during the search has the flag it had before the
\* search
SearchLeavesFlags ==
  /\ []((viewMode = "tree" /\ Term # <<>>) => ForcedOpen)
  /\ [][(viewMode = "tree" /\ viewMode' = "tree" /\ searchTerm' # searchTerm) =>
          \A p \in DOMAIN collapsed \cap DOMAIN collapsed' : collapsed'[p] = collapsed[p]]_vars
  /\ [][(viewMode = "tree" /\ viewMode' = "tree" /\ searchTerm # <<>> /\ searchTerm' = <<>>) =>
          \A p \in DOMAIN collapsed' \cap DOMAIN beforeSearch : collapsed'[p] = beforeSearch[p]]_vars

(***************************************************************************)
(* The path query of JsonOutput: evaluatePath and the pathResult and       *)
(* pathError derived from jsonPath and jsonData.                           *)
(***************************************************************************)
\* the result of a property access: a value, or undefined
Undefined == [defined |-> FALSE, val |-> JNull]

Defined(v) == [defined |-> TRUE, val |-> v]

\* a function of the JavaScript library, found through the prototype chain
JFun(name) == MkVal("fun", FALSE, name, 0, <<>>)

\* the number n as a value
JNat(n) == JsonParse(DigitsOf(n)).val

\* the properties every value inherits from its prototype, as far as the
\* paths of the model name them
InheritedKeys == {<<"c", "o", "n", "s", "t", "r", "u", "c", "t", "o", "r">>, <<"t", "o", "S", "t", "r", "i", "n", "g">>}

\* the text is the canonical form of an array index
IsIndexKey(key) ==
  /\ key # <<>>
  /\ \A i \in 1..Len(key) : key[i] \in Digits
  /\ (Len(key) > 1 => key[1] # "0")

\* current[key] for the property name key, current being neither null nor
\* undefined
GetProp(current, key) ==
  CASE current.t = "obj" /\ (\E i \in 1..Len(current.kids) : current.kids[i].k = key)
         -> Defined(current.kids[CHOOSE i \in 1..Len(current.kids) : current.kids[i].k = key].v)
    [] current.t = "arr" /\ IsIndexKey(key) /\ DigitsToInt(key) < Len(current.kids)
         -> Defined(current.kids[DigitsToInt(key) + 1].v)
    [] current.t = "str" /\ IsIndexKey(key) /\ DigitsToInt(key) < Len(current.s)
         -> Defined(JStr(<<current.s[DigitsToInt(key) + 1]>>))
    [] current.t \in {"arr", "str"} /\ key = <<"l", "e", "n", "g", "t", "h">>
         -> Defined(JNat(IF current.t = "arr" THEN Len(current.kids) ELSE Len(current.s)))
    [] key \in InheritedKeys
         -> Defined(JFun(key))
    [] OTHER -> Undefined

\* path.replace(/^\$\.?/, '')
StripRoot(path) ==
  IF path # <<>> /\ path[1] = "$"
  THEN (IF Len(path) > 1 /\ path[2] = "." THEN Sub(path, 3, Len(path)) ELSE Sub(path, 2, Len(path)))
  ELSE path

PathQuotes == {"'", "\""}

RECURSIVE PlainRunEnd(_, _)
\* the end of the run [^[.\]]+ that starts at i
PlainRunEnd(s, i) ==
  IF i <= Len(s) /\ s[i] \notin {"[", ".", "]"} THEN PlainRunEnd(s, i + 1) ELSE i

RECURSIVE UnquotedRunEnd(_, _)
\* the end of the run [^'"]+ that starts at i
UnquotedRunEnd(s, i) ==
  IF i <= Len(s) /\ s[i] \notin PathQuotes THEN UnquotedRunEnd(s, i + 1) ELSE i

RECURSIVE PathParts(_, _)
\* path.match(/([^[.\]]+|\[\d+\]|\[['"][^'"]+['"]\])/g) from position i on:
\* the matches from left to right, a character that starts no match being
\* skipped
PathParts(s, i) ==
  LET plain == PlainRunEnd(s, i)
      digits == DigitRunEnd(s, i + 1)
      quoted == UnquotedRunEnd(s, i + 2)
  IN IF i > Len(s) THEN <<>>
     ELSE IF plain > i THEN <<Sub(s, i, plain - 1)>> \o PathParts(s, plain)
     ELSE IF s[i] = "[" /\ digits > i + 1 /\ digits <= Len(s) /\ s[digits] = "]"
       THEN <<Sub(s, i, digits)>> \o PathParts(s, digits + 1)
     ELSE IF /\ s[i] = "[" /\ i + 1 <= Len(s) /\ s[i + 1] \in PathQuotes
             /\ quoted > i + 2 /\ quoted + 1 <= Len(s) /\ s[quoted + 1] = "]"
       THEN <<Sub(s, i, quoted + 1)>> \o PathParts(s, quoted + 2)
     ELSE PathParts(s, i + 1)

\* content.replace(/^['"]|['"]$/g, '')
StripQuotes(content) ==
  LET front == IF content # <<>> /\ content[1] \in PathQuotes THEN Tail(content) ELSE content
  IN IF front # <<>> /\ front[Len(front)] \in PathQuotes THEN Sub(front, 1, Len(front) - 1) ELSE front

\* the property name a part stands for: parseInt(content, 10) of an index
\* becomes the canonical index text when it is used as a property name
PartKey(part) ==
  LET content == Sub(part, 2, Len(part) - 1)
  IN IF part[1] # "[" THEN part
     ELSE IF \A i \in 1..Len(content) : content[i] \in Digits THEN DigitsOf(DigitsToInt(content))
     ELSE StripQuotes(content)

RECURSIVE Walk(_, _)
\* the loop of evaluatePath over the parts, current being defined
Walk(current, parts) ==
  IF parts = <<>> THEN Defined(current)
  ELSE IF current.t = "null" THEN Undefined
  ELSE LET Step(r) == IF r.defined THEN Walk(r.val, Tail(parts)) ELSE Undefined
       IN The({Step(x) : x \in {GetProp(current, PartKey(Head(parts)))}})

evaluatePath(obj, path) ==
  LET Stripped(s) ==
        LET Matched(parts) == IF parts = <<>> THEN Undefined ELSE Walk(obj, parts)
        IN IF s = <<>> THEN Defined(obj) ELSE The({Matched(x) : x \in {PathParts(s, 1)}})
  IN The({Stripped(x) : x \in {StripRoot(path)}})

\* !jsonData: the document is null, false, 0 or the empty string
Falsy(v) ==
  \/ v.t \in {"null", "false"}
  \/ v.t = "num" /\ v.s = <<>>
  \/ v.t = "str" /\ v.s = <<>>

\* pathResult and pathError for the path and the document
PathResult(path, data) ==
  LET Result(r) ==
        IF r.defined THEN [defined |-> TRUE, val |-> r.val, pathError |-> null]
        ELSE [defined |-> FALSE, val |-> JNull, pathError |-> "Undefined path"]
  IN IF path = <<>> \/ Falsy(data) THEN NoPath
     ELSE The({Result(x) : x \in {evaluatePath(data, path)}})

\* the length of the longest path typed
MaxPath == 15

\* the documents queried
PathDocs == {
  <<"{", "\"", "u", "s", "e", "r", "s", "\"", ":", "[", "{", "\"", "n", "a", "m", "e", "\"", ":", "\"", "A", "l", "\"", "}", "]", "}">>,
  <<"{", "\"", "0", "\"", ":", "[", "7", "]", ",", "\"", "n", "a", "m", "e", "\"", ":", "5", "}">>
}

\* the pieces the user types a path in
PathPieces == {
  <<"$">>,
  <<".", "u", "s", "e", "r", "s">>,
  <<"[", "0", "]">>,
  <<"[", "1", "]">>,
  <<".", "n", "a", "m", "e">>,
  <<".", "l", "e", "n", "g", "t", "h">>,
  <<"[", "'", "n", "a", "m", "e", "'", "]">>,
  <<"[">>
}

\* the path input's onChange: the user types one more piece
setJsonPath(piece) ==
  /\ Len(jsonPath) + Len(piece) <= MaxPath
  /\ jsonPath' = jsonPath \o piece
  /\ pathResult' = PathResult(jsonPath', parsed)
  /\ UNCHANGED <<value, undoStack, undoLen, pushed, viewMode, formattedVal, error, activeId>>
  /\ UNCHANGED <<sessVars, treeVars>>
  /\ UNCHANGED utilVars

\* the path input's onChange: the user empties the input
clearJsonPath ==
  /\ jsonPath # <<>>
  /\ jsonPath' = <<>>
  /\ pathResult' = PathResult(<<>>, parsed)
  /\ UNCHANGED <<value, undoStack, undoLen, pushed, viewMode, formattedVal, error, activeId>>
  /\ UNCHANGED <<sessVars, treeVars>>
  /\ UNCHANGED utilVars

\* JsonOutput shows one of the documents
InitPath ==
  /\ UtilInit
  /\ value \in PathDocs
  /\ undoStack = <<>>
  /\ undoLen = 0
  /\ pushed = <<>>
  /\ viewMode = "tree"
  /\ formattedVal = value
  /\ error = ""
  /\ activeId = 0
  /\ snippets = <<>>
  /\ indentSize = 2
  /\ viewer = "JsonOutput"
  /\ parsed = JsonParse(value).val
  /\ searchTerm = <<>>
  /\ filterMode = FALSE
  /\ collapsed = Render(viewer, parsed, <<>>, FALSE, <<>>)
  /\ kept = collapsed
  /\ beforeSearch = <<>>
  /\ jsonPath = <<>>
  /\ pathResult = NoPath

NextPath ==
  \/ \E piece \in PathPieces : setJsonPath(piece)
  \/ clearJsonPath

SpecPath == InitPath /\ [][NextPath]_vars

\* the part is an index token [n]
IsIndexPart(part) ==
  /\ part[1] = "["
  /\ \A i \in 2..(Len(part) - 1) : part[i] \in Digits

RECURSIVE Select(_, _)
\* the value the parts select when an index token applies to arrays only,
\* within their range, and a key token to the members of objects only
Select(current, parts) ==
  IF parts = <<>> THEN Defined(current)
  ELSE IF IsIndexPart(Head(parts))
    THEN (IF current.t = "arr" /\ DigitsToInt(PartKey(Head(parts))) < Len(current.kids)
          THEN Select(current.kids[DigitsToInt(PartKey(Head(parts))) + 1].v, Tail(parts))
          ELSE Undefined)
  ELSE IF current.t = "obj" /\ \E i \in 1..Len(current.kids) : current.kids[i].k = PartKey(Head(parts))
    THEN Select(current.kids[CHOOSE i \in 1..Len(current.kids) : current.kids[i].k = PartKey(Head(parts))].v,
                Tail(parts))
  ELSE Undefined

\* C20: the path gives no value when one of its tokens cannot be applied, an
\* index to something that is not an array or is out of its range, a key to
\* something that is not an object; it gives the value selected when every
\* token selects an element of an array or a member of an object
PathSelectsOrUndefined ==
  PathParts(StripRoot(jsonPath), 1) # <<>> =>
    /\ pathResult.defined = Select(parsed, PathParts(StripRoot(jsonPath), 1)).defined
    /\ pathResult.defined => pathResult.val = Select(parsed, PathParts(StripRoot(jsonPath), 1)).val
    /\ pathResult.pathError = IF pathResult.defined THEN null ELSE "Undefined path"

\* the path $.users.length on {"users":[{"name":"Al"}]} gives the number 1
LengthOfArray ==
  /\ jsonPath = <<"$", ".", "u", "s", "e", "r", "s", ".", "l", "e", "n", "g", "t", "h">>
  /\ pathResult.defined
  /\ pathResult.val = JNat(1)

\* the path $.users[0].name on {"users":[{"name":"Al"}]} gives "Al"
NameSelected ==
  /\ jsonPath = <<"$", ".", "u", "s", "e", "r", "s", "[", "0", "]", ".", "n", "a", "m", "e">>
  /\ pathResult = [defined |-> TRUE, val |-> JStr(<<"A", "l">>), pathError |-> null]

RECURSIVE TokensFrom(_, _, _)
\* the text from position i on is a sequence of the tokens .identifier,
\* [integer] and ['key'] or ["key"]; the first token, which follows the
\* stripped $. , may be an identifier without its dot
TokensFrom(s, i, first) ==
  IF i > Len(s) THEN TRUE
  ELSE IF s[i] = "." /\ PlainRunEnd(s, i + 1) > i + 1
    THEN TokensFrom(s, PlainRunEnd(s, i + 1), FALSE)
  ELSE IF first /\ PlainRunEnd(s, i) > i
    THEN TokensFrom(s, PlainRunEnd(s, i), FALSE)
  ELSE IF s[i] = "[" /\ DigitRunEnd(s, i + 1) > i + 1 /\ DigitRunEnd(s, i + 1) <= Len(s)
          /\ s[DigitRunEnd(s, i + 1)] = "]"
    THEN TokensFrom(s, DigitRunEnd(s, i + 1) + 1, FALSE)
  ELSE IF /\ s[i] = "[" /\ i + 1 <= Len(s) /\ s[i + 1] \in PathQuotes
          /\ UnquotedRunEnd(s, i + 2) > i + 2 /\ UnquotedRunEnd(s, i + 2) + 1 <= Len(s)
          /\ s[UnquotedRunEnd(s, i + 2)] \in PathQuotes
          /\ s[UnquotedRunEnd(s, i + 2) + 1] = "]"
    THEN TokensFrom(s, UnquotedRunEnd(s, i + 2) + 2, FALSE)
  ELSE FALSE

\* the path conforms to the path grammar
Conforms(path) == TokensFrom(StripRoot(path), 1, TRUE)

\* C21: a path that does not conform to the path grammar gives the error
\* 'Invalid path syntax', never a value computed from the part of it that
\* tokenizes and never 'Undefined path'; a path that is empty after its $
\* is stripped gives the root value
MalformedPathRejected ==
  jsonPath # <<>> =>
    /\ ~Conforms(jsonPath) =>
         pathResult = [defined |-> FALSE, val |-> JNull, pathError |-> "Invalid path syntax"]
    /\ StripRoot(jsonPath) = <<>> =>
         pathResult = [defined |-> TRUE, val |-> parsed, pathError |-> null]

\* the path $.users[ gives the array of users, its [ being skipped
MalformedPathEvaluated ==
  /\ jsonPath = <<"$", ".", "u", "s", "e", "r", "s", "[">>
  /\ pathResult.defined
  /\ pathResult.val.t = "arr"

\* no path gives the error 'Invalid path syntax'
NeverInvalidPathSyntax == pathResult.pathError # "Invalid path syntax"

\* the path $ gives the root value
RootPathGivesRoot ==
  jsonPath # <<>> /\ StripRoot(jsonPath) = <<>> =>
    pathResult = [defined |-> TRUE, val |-> parsed, pathError |-> null]

(***************************************************************************)
(* The two-panel component of src/components/JsonFormatter.jsx, built on   *)
(* validateJson, formatJson and minifyJson of src/utils/jsonUtils.js.  Its *)
(* state is held in the variables of the session controller: inputJson in  *)
(* value, outputJson in formattedVal, activeView in viewMode.              *)
(***************************************************************************)
inputJson == value

outputJson == formattedVal

activeView == viewMode

\* the state of the component that its handlers leave alone
panelsRest == <<undoStack, undoLen, pushed, activeId, snippets, treeVars, pathVars>>

\* the texts typed into the input panel
PanelDocs == {
  <<>>,
  <<" ">>,
  <<"{", "n", "a", "m", "e", ":", " ", "\"", "J", "o", "h", "n", "\"", "}">>,
  <<"{", "\"", "a", "\"", ":", "1", "}">>,
  <<"[", "1", ",", " ", "2", "]">>
}

\* onChange={setInputJson} of JsonInput
setInputJson(v) ==
  /\ activeView = "input"
  /\ inputJson' = v
  /\ UNCHANGED <<outputJson, error, activeView, indentSize>>
  /\ UNCHANGED panelsRest
  /\ UNCHANGED utilVars

\* setIndentSize of JsonInput
panelsSetIndentSize(n) ==
  /\ activeView = "input"
  /\ indentSize' = n
  /\ UNCHANGED <<inputJson, outputJson, error, activeView>>
  /\ UNCHANGED panelsRest
  /\ UNCHANGED utilVars

\* handleFormat without setOutputJson('') on an invalid input
panelsHandleFormatKeepOutput ==
  /\ activeView = "input"
  /\ \E validation \in {utilsValidateJson(inputJson)} :
       IF ~validation.isValid
       THEN /\ error' = validation.error
            /\ UNCHANGED <<outputJson, activeView>>
       ELSE /\ error' = null
            /\ outputJson' = utilsFormatJson(inputJson, indentSize).out
            /\ activeView' = "output"
  /\ UNCHANGED <<inputJson, indentSize>>
  /\ UNCHANGED panelsRest
  /\ UNCHANGED utilVars

panelsHandleFormat ==
  /\ activeView = "input"
  /\ \E validation \in {utilsValidateJson(inputJson)} :
       IF ~validation.isValid
       THEN /\ error' = validation.error
            /\ outputJson' = <<>>
            /\ UNCHANGED activeView
       ELSE /\ error' = null
            /\ outputJson' = utilsFormatJson(inputJson, indentSize).out
            /\ activeView' = "output"
  /\ UNCHANGED <<inputJson, indentSize>>
  /\ UNCHANGED panelsRest
  /\ UNCHANGED utilVars

panelsHandleMinify ==
  /\ activeView = "input"
  /\ \E validation \in {utilsValidateJson(inputJson)} :
       IF ~validation.isValid
       THEN /\ error' = validation.error
            /\ outputJson' = <<>>
            /\ UNCHANGED activeView
       ELSE /\ error' = null
            /\ outputJson' = utilsMinifyJson(inputJson).out
            /\ activeView' = "output"
  /\ UNCHANGED <<inputJson, indentSize>>
  /\ UNCHANGED panelsRest
  /\ UNCHANGED utilVars

panelsHandleClear ==
  /\ activeView = "input"
  /\ inputJson' = <<>>
  /\ outputJson' = <<>>
  /\ error' = null
  /\ activeView' = "input"
  /\ UNCHANGED indentSize
  /\ UNCHANGED panelsRest
  /\ UNCHANGED utilVars

handleEditOriginal ==
  /\ activeView = "output"
  /\ activeView' = "input"
  /\ UNCHANGED <<inputJson, outputJson, error, indentSize>>
  /\ UNCHANGED panelsRest
  /\ UNCHANGED utilVars

handleEditResult ==
  /\ activeView = "output"
  /\ inputJson' = IF outputJson # <<>> THEN outputJson ELSE inputJson
  /\ activeView' = "input"
  /\ UNCHANGED <<outputJson, error, indentSize>>
  /\ UNCHANGED panelsRest
  /\ UNCHANGED utilVars

InitPanels ==
  /\ UtilInit
  /\ inputJson = <<>>
  /\ outputJson = <<>>
  /\ error = null
  /\ indentSize = 2
  /\ activeView = "input"
  /\ undoStack = <<>>
  /\ undoLen = 0
  /\ pushed = <<>>
  /\ activeId = 0
  /\ snippets = <<>>
  /\ viewer = "JsonOutput"
  /\ parsed = JNull
  /\ searchTerm = <<>>
  /\ filterMode = FALSE
  /\ collapsed = <<>>
  /\ kept = <<>>
  /\ beforeSearch = <<>>
  /\ jsonPath = <<>>
  /\ pathResult = NoPath

NextPanels ==
  \/ \E v \in PanelDocs : setInputJson(v)
  \/ \E n \in IndentSizes : panelsSetIndentSize(n)
  \/ panelsHandleFormat
  \/ panelsHandleMinify
  \/ panelsHandleClear
  \/ handleEditOriginal
  \/ handleEditResult

SpecPanels == InitPanels /\ [][NextPanels]_vars

\* C22: Format and Minify on an input that strict JSON parse rejects (empty
\* and blank inputs among them) show an error, empty the output and leave the
\* input and the active view as they are; on a valid input they clear the
\* error, set the output to the formatted or minified text and switch the
\* active view to output
FormatMinifyValidateFirst ==
  [][/\ (panelsHandleFormat \/ panelsHandleMinify) /\ ~JsonParse(inputJson).ok =>
          /\ error' \notin {null, ""}
          /\ outputJson' = <<>>
          /\ inputJson' = inputJson
          /\ activeView' = activeView
     /\ panelsHandleFormat /\ JsonParse(inputJson).ok =>
          /\ error' = null
          /\ outputJson' = JsonStringify(JsonParse(inputJson).val, indentSize)
          /\ activeView' = "output"
     /\ panelsHandleMinify /\ JsonParse(inputJson).ok =>
          /\ error' = null
          /\ outputJson' = JsonStringify(JsonParse(inputJson).val, 0)
          /\ activeView' = "output"]_vars

\* Format of {name: "John"} after an earlier output: the error is shown and
\* the output is empty
InvalidInputRejected ==
  /\ inputJson = <<"{", "n", "a", "m", "e", ":", " ", "\"", "J", "o", "h", "n", "\"", "}">>
  /\ error = utilsValidateJson(inputJson).error
  /\ outputJson = <<>>
  /\ activeView = "input"

(***************************************************************************)
(* fixJson called on an array of one string literal, single- or            *)
(* double-quoted, typed piece by piece.                                    *)
(***************************************************************************)
\* the number of pieces the content of a literal is typed in
MaxLitPieces == 3

\* the pieces of the content of a literal
LitPieces == {
  <<"a">>,
  <<"/", "/">>,
  <<"/", "*">>,
  <<"*", "/">>,
  <<"\\", "'">>,
  <<"\"">>,
  <<"\\", "\"">>,
  <<"\\", "\\">>
}

\* the text typed is complete
Closed(s) == s # <<>> /\ s[Len(s)] = "]"

\* the user types [ and the opening quote
OpenLiteral(q) ==
  /\ res.op = "none"
  /\ text = <<>>
  /\ text' = <<"[", q>>
  /\ UNCHANGED <<orig, typed, res, out1, out2>>
  /\ UNCHANGED ctlVars

\* the user types one more piece of the content
TypeLiteral ==
  /\ res.op = "none"
  /\ text # <<>> /\ ~Closed(text)
  /\ typed < MaxLitPieces
  /\ \E f \in LitPieces : text' = text \o f
  /\ typed' = typed + 1
  /\ UNCHANGED <<orig, res, out1, out2>>
  /\ UNCHANGED ctlVars

\* the user types the closing quote, a trailing comma or none, and ]
CloseLiteral(trail) ==
  /\ res.op = "none"
  /\ text # <<>> /\ ~Closed(text)
  /\ text' = text \o <<text[2]>> \o trail \o <<"]">>
  /\ UNCHANGED <<orig, typed, res, out1, out2>>
  /\ UNCHANGED ctlVars

InitLit == UtilInit /\ CtlInit

NextLit ==
  \/ \E q \in {"'", "\""} : OpenLiteral(q)
  \/ TypeLiteral
  \/ \E trail \in {<<>>, <<",">>} : CloseLiteral(trail)
  \/ CallFixJson

SpecLit == InitLit /\ [][NextLit]_vars

\* the content typed between the quotes of a complete text
Content(s) == Sub(s, 3, Len(s) - (IF s[Len(s) - 1] = "," THEN 3 ELSE 2))

\* C23: a // or /* inside a string literal of the input, double- or
\* single-quoted, is kept by the comment passes: the content of the literal
\* reaches the repaired text intact
CommentMarksInStringsKept ==
  /\ res.op = "fixJson"
  /\ Closed(text)
  /\ \A i \in 1..Len(Content(text)) : Content(text)[i] \in {"a", "/", "*"}
  => /\ res.error = null
     /\ JsonParse(res.fixed).val = JArr(<<[k |-> <<>>, v |-> JStr(Content(text))]>>)

\* fixJson keeps the // of the double-quoted literal of ["//",]
DoubleQuotedCommentKept ==
  /\ res.op = "fixJson"
  /\ text = <<"[", "\"", "/", "/", "\"", ",", "]">>
  /\ res.wasFixed
  /\ res.fixed = <<"[", "\"", "/", "/", "\"", "]">>

RECURSIVE Intended(_)
\* the string a single-quoted literal with this content stands for: \' is a
\* single quote, \" a double quote, \\ a backslash
Intended(s) ==
  IF s = <<>> THEN <<>>
  ELSE IF Len(s) >= 2 /\ s[1] = "\\" THEN <<s[2]>> \o Intended(From(s, 3))
  ELSE <<Head(s)>> \o Intended(Tail(s))

RECURSIVE WellFormedSingle(_)
\* the content is that of one single-quoted literal: every backslash starts
\* an escape and no single quote stands unescaped
WellFormedSingle(s) ==
  IF s = <<>> THEN TRUE
  ELSE IF s[1] = "\\" THEN Len(s) >= 2 /\ WellFormedSingle(From(s, 3))
  ELSE s[1] # "'" /\ WellFormedSingle(Tail(s))

\* C24: a single-quoted literal is repaired to a double-quoted JSON literal
\* that decodes to the content the literal stands for, \' giving ', a double
\* quote written plainly or as \" giving ", everything else being preserved
SingleQuotedDecodesToContent ==
  /\ res.op = "fixJson"
  /\ Closed(text)
  /\ text[2] = "'"
  /\ WellFormedSingle(Content(text))
  /\ \A i \in 1..Len(Content(text)) : Content(text)[i] # "/"
  => /\ res.error = null
     /\ res.wasFixed
     /\ JsonParse(res.fixed).val = JArr(<<[k |-> <<>>, v |-> JStr(Intended(Content(text)))]>>)

\* fixJson repairs ['a\'"'] to ["a'\""]
SingleQuotedRepaired ==
  /\ res.op = "fixJson"
  /\ text = <<"[", "'", "a", "\\", "'", "\"", "'", "]">>
  /\ res.wasFixed
  /\ res.fixed = <<"[", "\"", "a", "'", "\\", "\"", "\"", "]">>

(***************************************************************************)
(* The lines of the tree view: commas and child lines                      *)
(***************************************************************************)
\* the path of the container of the node at path p
Parent(p) == Sub(p, 1, Len(p) - 1)

\* the isLast prop of the node at path p: true for the root, i ===
\* keys.length - 1 for the child i of a container
isLast(p) == IF p = <<>> THEN TRUE ELSE p[Len(p)] = Len(NodeAt(Data, Parent(p)).kids)

\* the final line of the node at path p carries a comma
HasComma(p) == ~isLast(p)

\* a rendered sibling follows the node at path p in its container
RenderedSiblingFollows(p) ==
  \E q \in RenderedPaths : /\ p # <<>> /\ Len(q) = Len(p)
                           /\ Parent(q) = Parent(p)
                           /\ q[Len(q)] > p[Len(p)]

\* C25: the final line of a rendered node carries a comma exactly when
\* another rendered sibling follows it in the same container; the last
\* rendered sibling of a container, and the root, carry none
CommaExactlyBetweenRendered ==
  viewMode = "tree" =>
    \A p \in RenderedPaths : HasComma(p) <=> RenderedSiblingFollows(p)

\* with the filter off every node but the last of its container is followed
\* by a rendered sibling
CommaBetweenSiblingsUnfiltered ==
  viewMode = "tree" /\ ~filterMode =>
    \A p \in RenderedPaths : HasComma(p) <=> RenderedSiblingFollows(p)

\* the member a of {"a":{"b":1},"c":[1,2]} is the only one the filter keeps
\* for the term b, and its closing line carries a comma
CommaAfterLastRendered ==
  /\ viewMode = "tree" /\ filterMode /\ Term = <<"b">>
  /\ <<1>> \in RenderedPaths /\ <<2>> \notin RenderedPaths
  /\ HasComma(<<1>>)

\* the key name of the node at path p contains the search term
OwnKeyMatches(p) == KeyOf(p).has /\ Includes(ToLowerCase(KeyOf(p).k), Term)

\* C28: with the filter on and a search term, every rendered container that
\* is not empty and whose own key does not contain the term shows at least
\* one child line between its braces
FilteredContainerShowsChild ==
  viewMode = "tree" /\ filterMode /\ Term # <<>> =>
    \A p \in RenderedPaths :
      HasToggle(p) /\ ~OwnKeyMatches(p) =>
        \E i \in 1..Len(ValueOf(p).kids) : Append(p, i) \in RenderedPaths

\* the root of [[[[[1]]]],null] is rendered for the term n with the filter
\* on, and none of its children is
RootShownWithoutChildren ==
  /\ viewMode = "tree" /\ filterMode /\ Term = <<"n">>
  /\ ValueOf(<<>>).t = "arr"
  /\ RenderedPaths = {<<>>}

(***************************************************************************)
(* The session controller: the tree view and the document text             *)
(***************************************************************************)
\* C26: whenever the view mode is 'tree', the text the tree view renders,
\* formattedVal, is the current document text, value
TreeShowsDocument == viewMode = "tree" => formattedVal = value

\* the tree view shows the formatted text of a snippet whose deletion from
\* the sidebar has emptied the document
TreeShowsDeletedText ==
  /\ viewMode = "tree"
  /\ value = <<>>
  /\ formattedVal # <<>>
  /\ snippets = <<>>

\* the step is the user typing in the editor
Typing == \E v \in CtlDocs : onChange(v)

\* C27: every action that replaces a document text that is not empty with a
\* different text, typing in the editor and Undo apart, pushes the replaced
\* text onto the undo stack first, so that Undo restores it
ReplacedTextPushed ==
  [][value # <<>> /\ value' # value /\ ~Typing /\ ~handleUndo =>
       undoStack' # <<>> /\ Head(undoStack') = value]_vars

\* the same of every action but the deletion of a snippet from the sidebar
ReplacedTextPushedButSidebar ==
  [][/\ value # <<>> /\ value' # value /\ ~Typing /\ ~handleUndo
     /\ ~(\E i \in 1..Len(snippets) : handleSidebarDelete(snippets[i].id))
     => undoStack' # <<>> /\ Head(undoStack') = value]_vars

\* in tree mode formattedVal is a text that is not empty and that strict
\* JSON parse accepts: the tree view never shows its parse error
TreeTextParses == viewMode = "tree" => formattedVal # <<>> /\ JsonParse(formattedVal).ok

\* the view mode becomes 'tree' by Format alone
TreeOnlyByFormat == [][viewMode # "tree" /\ viewMode' = "tree" => handleFormat]_vars

\* every action but Format that changes the document sets the view mode to
\* 'edit'
ChangeLeavesTree == [][value' # value /\ ~handleFormat => viewMode' = "edit"]_vars

\* C29: whenever the view mode is 'tree', formattedVal is a text that is not
\* empty and that strict JSON parse accepts; the view mode becomes 'tree'
\* only by a successful Format, and every other action that changes the
\* document sets it back to 'edit'
TreeValidOnlyByFormat ==
  /\ []TreeTextParses
  /\ [][/\ viewMode # "tree" /\ viewMode' = "tree" =>
             handleFormat /\ JsonParse(formattedVal').ok /\ error' = ""
        /\ value' # value /\ ~handleFormat => viewMode' = "edit"]_vars

\* the active snippet id is null, or the id of a snippet of the list
ActiveIdNamesSnippet ==
  activeId # 0 => \E i \in 1..Len(snippets) : snippets[i].id = activeId

\* C30: in every reachable state the active snippet id is null or the id of
\* a snippet of the list: saving, switching and restoring set it to a snippet
\* of the list, the deletion of the active snippet, from the modal or the
\* sidebar, resets it to null, and so do undo, clear, new and the loads
ActiveIdAlwaysValid ==
  /\ []ActiveIdNamesSnippet
  /\ [][/\ (\/ confirmSave
            \/ \E i \in 1..Len(snippets) : handleSwitchSnippet(snippets[i])
            \/ \E i \in 1..Len(snippets) : handleRestore(snippets[i]))
           => \E i \in 1..Len(snippets') : snippets'[i].id = activeId'
        /\ (\E i \in 1..Len(snippets) :
              /\ activeId = snippets[i].id
              /\ handleDeleteSnippet(snippets[i].id) \/ handleSidebarDelete(snippets[i].id))
           => activeId' = 0
        /\ (\/ handleUndo \/ handleClear \/ handleNew
            \/ \E result \in CtlDocs : onload(result)
            \/ \E body \in CtlDocs : handleFetchUrl(body))
           => activeId' = 0]_vars

\* two snippets were saved and the first one deleted: the second is still
\* the active one
ActiveSnippetSurvivesDelete ==
  /\ Len(snippets) = 1
  /\ snippets[1].id = 2
  /\ activeId = 2

====
